---- MODULE Spec2Model ----
(***************************************************************************)
(* Model of the ghcr-cleanup-action core: package index snapshot, manifest *)
(* graph, candidate (filter) set, deletion strategy, image validator,      *)
(* image deleter and the orchestrator that sequences them.                 *)
(*                                                                         *)
(* Strings are sequences of tokens.  The prefixes "sha256:" and "sha256-"  *)
(* are one token each; the 64 hex characters of a digest are HexLen        *)
(* tokens.  JS Sets and Maps are sequences without duplicates, so that     *)
(* iteration follows insertion order as in the program.                    *)
(***************************************************************************)
EXTENDS Naturals, Integers, Sequences, FiniteSets, TLC

\* number of hex tokens of a digest (64 in the program)
HexLen == 2
\* timestamps (updated_at, now) range over 1..MaxTime
MaxTime == 3
\* keep-n-tagged / keep-n-untagged range over 0..MaxKeepN
MaxKeepN == 2

----------------------------------------------------------------------------
(* Strings *)

SHA_COLON == "sha256:"
SHA_DASH == "sha256-"

\* String.prototype.startsWith
StartsWith(s, p) == Len(s) >= Len(p) /\ SubSeq(s, 1, Len(p)) = p

\* String.prototype.replace(from, to) with string arguments: first occurrence
Replace(s, from, to) ==
  IF \E i \in 1..Len(s) : s[i] = from
  THEN LET i == CHOOSE k \in 1..Len(s) :
                  s[k] = from /\ \A j \in 1..(k - 1) : s[j] # from
       IN [s EXCEPT ![i] = to]
  ELSE s

\* String.prototype.substring(0, n)
Substring0(s, n) == SubSeq(s, 1, IF n < Len(s) THEN n ELSE Len(s))

\* length of a digest string: 71 in the program ("sha256:" + 64 hex)
DigestStrLen == 1 + HexLen

\* the hex part of the digest named by the token c
Hex(c) == [k \in 1..HexLen |-> c]
\* the digest string "sha256:<hex>"
Dg(c) == <<SHA_COLON>> \o Hex(c)
\* a referrer tag "sha256-<hex><suffix>" for the digest named by c
RefTag(c, suffix) == <<SHA_DASH>> \o Hex(c) \o suffix

----------------------------------------------------------------------------
(* JS Set / Map as insertion-ordered sequences *)

Range(s) == {s[i] : i \in 1..Len(s)}
Has(s, x) == \E i \in 1..Len(s) : s[i] = x
\* Set.prototype.add
SetAdd(s, x) == IF Has(s, x) THEN s ELSE Append(s, x)
\* Set.prototype.delete
SetDelete(s, x) == SelectSeq(s, LAMBDA y : y # x)
\* add every element of t to s, in the order of t
RECURSIVE SetAddAll(_, _)
SetAddAll(s, t) ==
  IF t = <<>> THEN s ELSE SetAddAll(SetAdd(s, Head(t)), Tail(t))
\* delete every element of the set S from s
SetDeleteAll(s, S) == SelectSeq(s, LAMBDA y : y \notin S)

\* a sequence enumerating the finite set S in some fixed order
RECURSIVE SetToSeq(_)
SetToSeq(S) ==
  IF S = {} THEN <<>>
  ELSE LET x == CHOOSE y \in S : TRUE IN <<x>> \o SetToSeq(S \ {x})

----------------------------------------------------------------------------
(* State *)

VARIABLES
  remote,        \* the remote store: package versions, manifests, id counter
  repo,          \* PackageRepo: the local snapshot (digest2Package, tag2Digest)
  config,        \* Config, fixed during a pass
  filterSet,     \* CleanupOrchestrator.filterSet
  deleteSet,     \* CleanupOrchestrator.deleteSet
  excludeTags,   \* CleanupOrchestrator.excludeTags
  digestUsedBy,  \* CleanupOrchestrator.digestUsedBy / ImageDeleter.digestUsedBy
  deleted,       \* ImageDeleter.deleted
  statistics,    \* CleanupOrchestrator.statistics
  plan,          \* the DeletionPlan being executed by run
  calls,         \* log of the calls issued to the Registry and Package Index
  result,        \* return value of the last component call
  snapshot,      \* the remote store as it was when the pass started
  inputs,        \* the action inputs that core.getInput reads
  targets,       \* main.ts: the stores of the target packages still to process
  fault,         \* ordinal of the logged call that fails, 0 for none
  globalStatistics,  \* main.ts: the combined statistics of the action
  perPackageStats,   \* main.ts: the statistics each run has returned
  pc             \* position of the orchestrator / of the caller

vars == <<remote, repo, config, filterSet, deleteSet, excludeTags,
          digestUsedBy, deleted, statistics, plan, calls, result, snapshot,
          inputs, targets, fault, globalStatistics,
                 perPackageStats, pc>>

\* a Map with no entries
EmptyMap == [x \in {} |-> <<>>]

\* a package version as returned by the GitHub packages API
Package(name, id, tags, updated_at) ==
  [name |-> name, id |-> id, tags |-> tags, updated_at |-> updated_at]

\* a manifest: manifest.manifests is defined iff kind = "index";
\* cfg stands for the rest of the content (config, annotations)
IndexManifest(cfg, children) ==
  [kind |-> "index", manifests |-> children, layers |-> 0, cfg |-> cfg]
LeafManifest(cfg) ==
  [kind |-> "leaf", manifests |-> <<>>, layers |-> 1, cfg |-> cfg]

\* one entry of the call log: the operation, the digest and the tag it is
\* about; loadPackages(target, true) carries RESET in place of the tag
Call(op, digest, tag) == [op |-> op, digest |-> digest, tag |-> tag]
RESET == <<"reset">>

----------------------------------------------------------------------------
(* Package Index: PackageRepo over the local snapshot *)

\* getDigests(): a fresh Set of the digests of the snapshot
GetDigests(r) == [i \in 1..Len(r.pkgs) |-> r.pkgs[i].name]
\* getTags(): the tags of the snapshot
GetTags(r) == DOMAIN r.t2d
HasPackage(r, digest) == \E i \in 1..Len(r.pkgs) : r.pkgs[i].name = digest
\* getPackageByDigest(digest), defined when HasPackage
GetPackageByDigest(r, digest) ==
  r.pkgs[CHOOSE i \in 1..Len(r.pkgs) : r.pkgs[i].name = digest]
\* getIdByDigest(digest): 0 stands for undefined
GetIdByDigest(r, digest) ==
  IF HasPackage(r, digest) THEN GetPackageByDigest(r, digest).id ELSE 0
\* getDigestByTag(tag): the empty string stands for undefined
GetDigestByTag(r, tag) == IF tag \in DOMAIN r.t2d THEN r.t2d[tag] ELSE <<>>
\* number of tags of a package of the snapshot
TagCount(r, digest) == Cardinality(GetPackageByDigest(r, digest).tags)

\* Map.set(p.name, p): keeps the position of an existing key
MapSetPackage(pkgs, p) ==
  IF \E i \in 1..Len(pkgs) : pkgs[i].name = p.name
  THEN [i \in 1..Len(pkgs) |-> IF pkgs[i].name = p.name THEN p ELSE pkgs[i]]
  ELSE Append(pkgs, p)

RECURSIVE LoadListing(_, _)
LoadListing(r, listing) ==
  IF listing = <<>> THEN r
  ELSE LET p == Head(listing) IN
       LoadListing([pkgs |-> MapSetPackage(r.pkgs, p),
                    t2d |-> [t \in p.tags |-> p.name] @@ r.t2d],
                   Tail(listing))

\* loadPackages(target, reset) when the API returns listing
LoadPackages(r, listing, reset) ==
  LoadListing(IF reset THEN [pkgs |-> <<>>, t2d |-> EmptyMap] ELSE r, listing)

----------------------------------------------------------------------------
(* Registry and remote store *)

RemoteHas(rem, digest) == \E i \in 1..Len(rem.pkgs) : rem.pkgs[i].name = digest
RemoteHasId(rem, id) == \E i \in 1..Len(rem.pkgs) : rem.pkgs[i].id = id
RemotePackage(rem, digest) ==
  rem.pkgs[CHOOSE i \in 1..Len(rem.pkgs) : rem.pkgs[i].name = digest]
RemoteDigests(rem) == {rem.pkgs[i].name : i \in 1..Len(rem.pkgs)}

\* the registry is content addressed: the digest of a manifest
DigestOfManifest(rem, m) ==
  IF \E d \in DOMAIN rem.manifests : rem.manifests[d] = m
  THEN CHOOSE d \in DOMAIN rem.manifests : rem.manifests[d] = m
  ELSE <<SHA_COLON, "e">> \o Tail(Hex(m.cfg))

\* putManifest(tag, manifest): the tag moves to the package of the written
\* manifest, which is created when it does not exist
PutManifest(rem, tag, m, now) ==
  LET d == DigestOfManifest(rem, m)
      moved == [i \in 1..Len(rem.pkgs) |->
                  IF rem.pkgs[i].name = d
                  THEN [rem.pkgs[i] EXCEPT !.tags = @ \cup {tag}]
                  ELSE [rem.pkgs[i] EXCEPT !.tags = @ \ {tag}]]
  IN IF RemoteHas(rem, d)
     THEN [rem EXCEPT !.pkgs = moved]
     ELSE [pkgs |-> Append(moved, Package(d, rem.nextId, {tag}, now)),
           manifests |-> (d :> m) @@ rem.manifests,
           nextId |-> rem.nextId + 1]

\* deletePackageVersion(target, id, ...): when not in dry-run mode the package
\* version with that id is removed from the store
DeleteVersion(rem, id) ==
  [rem EXCEPT !.pkgs = SelectSeq(@, LAMBDA p : p.id # id)]

\* getManifestByDigest(digest), defined for the digests the registry knows
Manifest(rem, digest) == rem.manifests[digest]
IsIndex(m) == m.kind = "index"
\* the child digests listed by an index manifest, in order
Children(m) == IF IsIndex(m) THEN m.manifests ELSE <<>>

\* getManifestByTag(tag): the registry resolves the tag itself
ManifestByTag(rem, r, tag) ==
  IF \E i \in 1..Len(rem.pkgs) : tag \in rem.pkgs[i].tags
  THEN Manifest(rem, rem.pkgs[CHOOSE i \in 1..Len(rem.pkgs) :
                                  tag \in rem.pkgs[i].tags].name)
  ELSE Manifest(rem, GetDigestByTag(r, tag))

----------------------------------------------------------------------------
(* Manifest Analyzer *)

\* the children of parent that are still in digests are recorded and removed
RECURSIVE MapChildren(_, _, _)
MapChildren(st, parent, children) ==
  IF children = <<>> THEN st
  ELSE LET c == Head(children) IN
       IF Has(st.digests, c)
       THEN MapChildren(
              [digests |-> SetDelete(st.digests, c),
               usedBy |-> (c :> ((IF c \in DOMAIN st.usedBy
                                  THEN st.usedBy[c] ELSE {}) \cup {parent}))
                          @@ st.usedBy],
              parent, Tail(children))
       ELSE MapChildren(st, parent, Tail(children))

\* the for-of loop over digests: a digest removed before its turn is skipped
RECURSIVE UsedByLoop(_, _, _, _)
UsedByLoop(rem, all, i, st) ==
  IF i > Len(all) THEN st
  ELSE IF ~Has(st.digests, all[i]) THEN UsedByLoop(rem, all, i + 1, st)
  ELSE UsedByLoop(rem, all, i + 1,
                  MapChildren(st, all[i], Children(Manifest(rem, all[i]))))

LoadDigestUsedByMap(rem, r) ==
  UsedByLoop(rem, GetDigests(r), 1,
             [digests |-> GetDigests(r), usedBy |-> EmptyMap]).usedBy

\* the tags of the snapshot that start with the referrer form of digest
ReferrerTags(r, digest) ==
  {t \in GetTags(r) : StartsWith(t, Replace(digest, SHA_COLON, SHA_DASH))}

\* what one iteration of initFilterSet removes from digests
FilterRemoved(rem, r, digest) ==
  Range(Children(Manifest(rem, digest)))
  \cup UNION {
        (IF GetDigestByTag(r, t) # <<>>
         THEN {GetDigestByTag(r, t)}
              \cup Range(Children(ManifestByTag(rem, r, t)))
         ELSE {}) : t \in ReferrerTags(r, digest)}

RECURSIVE FilterLoop(_, _, _, _, _)
FilterLoop(rem, r, all, i, digests) ==
  IF i > Len(all) THEN digests
  ELSE IF ~Has(digests, all[i]) THEN FilterLoop(rem, r, all, i + 1, digests)
  ELSE FilterLoop(rem, r, all, i + 1,
                  SetDeleteAll(digests, FilterRemoved(rem, r, all[i])))

InitFilterSet(rem, r) == FilterLoop(rem, r, GetDigests(r), 1, GetDigests(r))

----------------------------------------------------------------------------
(* Image Filter *)

\* wildcard-match over a comma separated list: a literal pattern matches
\* itself and the pattern * matches every tag and digest
STAR == <<"*">>
IsTagMatch(patterns, s) ==
  \E i \in 1..Len(patterns) : patterns[i] = s \/ patterns[i] = STAR

\* the tags and digests matched by exclude-tags, in the order pushed
ExcludedStrings(cfg, r) ==
  IF cfg.excludeTags = <<>> THEN <<>>
  ELSE SelectSeq(SetToSeq(GetTags(r)),
                 LAMBDA t : IsTagMatch(cfg.excludeTags, t))
       \o SelectSeq(GetDigests(r), LAMBDA d : IsTagMatch(cfg.excludeTags, d))

\* the exclusion with the digest strings left out of the match
ApplyExclusionFiltersTagsOnly(cfg, r, fs) ==
  IF cfg.excludeTags = <<>> THEN fs
  ELSE SetDeleteAll(fs,
         {GetDigestByTag(r, t) :
            t \in {u \in GetTags(r) : IsTagMatch(cfg.excludeTags, u)}})

\* applyExclusionFilters: the filter set afterwards
ApplyExclusionFilters(cfg, r, fs) ==
  IF cfg.excludeTags = <<>> THEN fs
  ELSE SetDeleteAll(fs,
         {GetDigestByTag(r, t) :
            t \in {u \in GetTags(r) : IsTagMatch(cfg.excludeTags, u)}}
         \cup {d \in Range(GetDigests(r)) : IsTagMatch(cfg.excludeTags, d)})

\* the age filter that keeps a package updated exactly at the cutoff
ApplyAgeFilterLate(cfg, r, fs) ==
  IF cfg.olderThan = 0 THEN fs
  ELSE SelectSeq(fs, LAMBDA d :
         ~(GetPackageByDigest(r, d).updated_at > cfg.now - cfg.olderThan))

\* applyAgeFilter: packages updated at or after the cut-off are removed
ApplyAgeFilter(cfg, r, fs) ==
  IF cfg.olderThan = 0 THEN fs
  ELSE SelectSeq(fs, LAMBDA d :
         ~(GetPackageByDigest(r, d).updated_at >= cfg.now - cfg.olderThan))

\* expandTags: the matching tags of the filter set, then the matching digests
ExpandTags(cfg, r, fs) ==
  IF cfg.deleteTags = <<>> THEN <<>>
  ELSE LET tagsOf(i) == SelectSeq(SetToSeq(GetPackageByDigest(r, fs[i]).tags),
                                  LAMBDA t : IsTagMatch(cfg.deleteTags, t))
           F[i \in 0..Len(fs)] ==
             IF i = 0 THEN <<>> ELSE SetAddAll(F[i - 1], tagsOf(i))
       IN SetAddAll(F[Len(fs)],
                    SelectSeq(fs, LAMBDA d : IsTagMatch(cfg.deleteTags, d)))

----------------------------------------------------------------------------
(* Deletion Strategy *)

\* untagOperations is a Map digest -> tags: entries in insertion order
UntagPush(ops, digest, tag) ==
  IF \E i \in 1..Len(ops) : ops[i].digest = digest
  THEN [i \in 1..Len(ops) |->
          IF ops[i].digest = digest
          THEN [ops[i] EXCEPT !.tags = Append(@, tag)] ELSE ops[i]]
  ELSE Append(ops, [digest |-> digest, tags |-> <<tag>>])

\* first loop of processTagDeletions: split the matched tags
RECURSIVE SplitTags(_, _, _, _)
SplitTags(r, excluded, tags, acc) ==
  IF tags = <<>> THEN acc
  ELSE LET tag == Head(tags)
           d == GetDigestByTag(r, tag)
           next ==
             IF Has(excluded, tag) THEN acc
             ELSE IF StartsWith(tag, <<SHA_COLON>>)
               THEN [acc EXCEPT !.standardTags = SetAdd(@, tag)]
             ELSE IF d = <<>> THEN acc
             ELSE IF TagCount(r, d) > 1
               THEN [acc EXCEPT !.untagOperations = UntagPush(@, d, tag)]
             ELSE IF TagCount(r, d) = 1
               THEN [acc EXCEPT !.standardTags = SetAdd(@, tag)]
             ELSE acc
       IN SplitTags(r, excluded, Tail(tags), next)

\* the digest a standard tag stands for
StandardDigest(r, tag) ==
  IF StartsWith(tag, <<SHA_COLON>>) THEN tag ELSE GetDigestByTag(r, tag)

\* the plan with the standard deletions processed whatever keep-n-tagged is
ProcessTagDeletionsEager(cfg, r, fs, excluded) ==
  LET matchTags == ExpandTags(cfg, r, fs)
      split == SplitTags(r, excluded, matchTags,
                         [standardTags |-> <<>>, untagOperations |-> <<>>])
      std == SelectSeq(split.standardTags,
                       LAMBDA t : StandardDigest(r, t) # <<>>)
      digests == [i \in 1..Len(std) |-> StandardDigest(r, std[i])]
  IN IF cfg.deleteTags = <<>> \/ matchTags = <<>>
     THEN [deleteSet |-> <<>>, untagOperations |-> <<>>, filterSet |-> fs]
     ELSE [deleteSet |-> SetAddAll(<<>>, digests),
           untagOperations |-> split.untagOperations,
           filterSet |-> SetDeleteAll(fs, Range(digests))]

\* the plan with the packages of the untag operations staged for deletion
ProcessTagDeletionsNoUntag(cfg, r, fs, excluded) ==
  LET matchTags == ExpandTags(cfg, r, fs)
      split == SplitTags(r, excluded, matchTags,
                         [standardTags |-> <<>>, untagOperations |-> <<>>])
      std == SelectSeq(split.standardTags,
                       LAMBDA t : StandardDigest(r, t) # <<>>)
      digests == [i \in 1..Len(std) |-> StandardDigest(r, std[i])]
                 \o [i \in 1..Len(split.untagOperations) |->
                       split.untagOperations[i].digest]
  IN IF cfg.deleteTags = <<>> \/ matchTags = <<>>
     THEN [deleteSet |-> <<>>, untagOperations |-> <<>>, filterSet |-> fs]
     ELSE [deleteSet |-> SetAddAll(<<>>, digests),
           untagOperations |-> <<>>,
           filterSet |-> SetDeleteAll(fs, Range(digests))]

\* processTagDeletions: the plan and the filter set afterwards
ProcessTagDeletions(cfg, r, fs, excluded) ==
  LET matchTags == ExpandTags(cfg, r, fs)
      split == SplitTags(r, excluded, matchTags,
                         [standardTags |-> <<>>, untagOperations |-> <<>>])
      std == SelectSeq(split.standardTags,
                       LAMBDA t : StandardDigest(r, t) # <<>>)
      digests == [i \in 1..Len(std) |-> StandardDigest(r, std[i])]
  IN IF cfg.deleteTags = <<>> \/ matchTags = <<>>
     THEN [deleteSet |-> <<>>, untagOperations |-> <<>>, filterSet |-> fs]
     ELSE IF cfg.keepNtagged = -1
     THEN [deleteSet |-> SetAddAll(<<>>, digests),
           untagOperations |-> split.untagOperations,
           filterSet |-> SetDeleteAll(fs, Range(digests))]
     ELSE [deleteSet |-> <<>>,
           untagOperations |-> split.untagOperations,
           filterSet |-> fs]

\* the packages left in the order in which they were collected
Unsorted(ps) == ps

\* Array.prototype.sort with (a, b) => Date.parse(b.updated_at) -
\* Date.parse(a.updated_at): stable, newest first.  updated_at holds the
\* parsed time, a number of 1..MaxTime
RECURSIVE SortByDateDesc(_)
SortByDateDesc(ps) ==
  IF ps = <<>> THEN <<>>
  ELSE LET sorted == SortByDateDesc(SubSeq(ps, 1, Len(ps) - 1))
           p == ps[Len(ps)]
           k == Cardinality({i \in 1..Len(sorted) :
                               sorted[i].updated_at >= p.updated_at})
       IN SubSeq(sorted, 1, k) \o <<p>> \o SubSeq(sorted, k + 1, Len(sorted))

\* Array.prototype.splice(n): the elements from index n on
Splice(ps, n) == SubSeq(ps, n + 1, Len(ps))

\* the names of a list of packages, as added to a Set
NamesOf(ps) == SetAddAll(<<>>, [i \in 1..Len(ps) |-> ps[i].name])

PackagesOf(r, digests) ==
  [i \in 1..Len(digests) |-> GetPackageByDigest(r, digests[i])]

\* keepNUntagged with N = 0 taken for an unset option
KeepNUntaggedFalsy(cfg, r, fs) ==
  LET unTagged == SelectSeq(PackagesOf(r, fs), LAMBDA p : p.tags = {})
  IN IF cfg.keepNuntagged <= 0 THEN <<>>
     ELSE IF Len(unTagged) > cfg.keepNuntagged
     THEN NamesOf(Splice(SortByDateDesc(unTagged), cfg.keepNuntagged))
     ELSE <<>>

\* keepNUntagged: the returned delete set
KeepNUntagged(cfg, r, fs) ==
  LET unTagged == SelectSeq(PackagesOf(r, fs), LAMBDA p : p.tags = {})
  IN IF cfg.keepNuntagged = -1 THEN <<>>
     ELSE IF Len(unTagged) > cfg.keepNuntagged
     THEN NamesOf(Splice(SortByDateDesc(unTagged), cfg.keepNuntagged))
     ELSE <<>>

\* keepNUntagged: the filter set afterwards, filterSet.delete of each
\* package added to the delete set
AfterKeepNUntagged(cfg, r, fs) ==
  SetDeleteAll(fs, Range(KeepNUntagged(cfg, r, fs)))

\* keepNTagged: the packages ranked by the keep-n step
TaggedPackages(cfg, r, fs) ==
  IF cfg.deleteTags # <<>>
  THEN PackagesOf(r, SelectSeq(
         [i \in 1..Len(ExpandTags(cfg, r, fs)) |->
            GetDigestByTag(r, ExpandTags(cfg, r, fs)[i])],
         LAMBDA d : d # <<>> /\ HasPackage(r, d)))
  ELSE SelectSeq(PackagesOf(r, fs), LAMBDA p : p.tags # {})

\* keepNTagged: the returned delete set
KeepNTagged(cfg, r, fs) ==
  LET tagged == TaggedPackages(cfg, r, fs)
  IN IF cfg.keepNtagged = -1 THEN <<>>
     ELSE IF Len(tagged) > cfg.keepNtagged
     THEN NamesOf(Splice(SortByDateDesc(tagged), cfg.keepNtagged))
     ELSE <<>>

\* keepNTagged with the deleted packages left in the filter set
AfterKeepNTaggedKept(cfg, r, fs) == fs

\* keepNTagged: the filter set afterwards
AfterKeepNTagged(cfg, r, fs) ==
  SetDeleteAll(fs, Range(KeepNTagged(cfg, r, fs)))

\* every candidate returned, tagged or not
DeleteAllCandidates(r, fs) == fs

\* deleteAllUntagged: the returned delete set
DeleteAllUntagged(r, fs) ==
  SelectSeq(fs, LAMBDA d : GetPackageByDigest(r, d).tags = {})

----------------------------------------------------------------------------
(* Image Validator *)

\* the whole child list counted as missing as soon as one child is
MissingAny(r, m) ==
  IF \E i \in 1..Len(m.manifests) : GetIdByDigest(r, m.manifests[i]) = 0
  THEN Len(m.manifests) ELSE 0

\* number of child descriptors whose digest has no package id
Missing(r, m) ==
  Cardinality({i \in 1..Len(m.manifests) :
                 GetIdByDigest(r, m.manifests[i]) = 0})

FindGhostImages(rem, r, fs) ==
  SelectSeq(fs, LAMBDA d :
    /\ IsIndex(Manifest(rem, d))
    /\ Missing(r, Manifest(rem, d)) = Len(Manifest(rem, d).manifests))

FindPartialImages(rem, r, fs) ==
  SelectSeq(fs, LAMBDA d :
    /\ IsIndex(Manifest(rem, d))
    /\ \E i \in 1..Len(Manifest(rem, d).manifests) :
         GetIdByDigest(r, Manifest(rem, d).manifests[i]) = 0)

\* the parent digest with the trailing characters of the tag kept
ParentOfTagWhole(tag) == Replace(tag, SHA_DASH, SHA_COLON)

\* the parent digest a referrer tag encodes
ParentOfTag(tag) ==
  LET digest == Replace(tag, SHA_DASH, SHA_COLON)
  IN IF Len(digest) > DigestStrLen
     THEN Substring0(digest, DigestStrLen) ELSE digest

FindOrphanedImages(r) ==
  SetAddAll(<<>>,
    LET ts == SelectSeq(SetToSeq(GetTags(r)), LAMBDA t :
                /\ StartsWith(t, <<SHA_DASH>>)
                /\ GetIdByDigest(r, ParentOfTag(t)) = 0
                /\ GetDigestByTag(r, t) # <<>>)
    IN [i \in 1..Len(ts) |-> GetDigestByTag(r, ts[i])])

----------------------------------------------------------------------------
(* Image Deleter *)

(* The deleter works on a session record w:
     rem      the remote store            deleted  ImageDeleter.deleted
     usedBy   ImageDeleter.digestUsedBy   calls    the call log
     err      an exception is propagating
     n, multi the counters returned by the current call
     failAt   ordinal of the logged call that the service fails, 0 for none *)

Session(rem, del, usedBy, log) ==
  [rem |-> rem, deleted |-> del, usedBy |-> usedBy, calls |-> log,
   err |-> FALSE, n |-> 0, multi |-> 0, failAt |-> 0]

\* the request about to be issued is the one the service fails: the awaited
\* call rejects and leaves the store as it was
Fails(w) == w.failAt = Len(w.calls) + 1

\* registry.getManifestByDigest(digest): fails for an unknown digest
FetchManifest(w, digest) ==
  IF w.err THEN w
  ELSE [w EXCEPT !.calls = Append(@, Call("getManifest", digest, <<>>)),
                 !.err = Fails(w) \/ digest \notin DOMAIN w.rem.manifests]

\* packageRepo.deletePackageVersion(target, id, digest, tags): fails with
\* NotFound when the version is already gone; no request in dry-run mode.
\* tag is the tag performUntagging passes, empty for the image deleter
DeletePackageVersion(w, cfg, id, digest, tag) ==
  IF w.err THEN w
  ELSE IF cfg.dryRun
  THEN [w EXCEPT !.calls = Append(@, Call("deletePackageVersion", digest, tag))]
  ELSE [w EXCEPT !.calls = Append(@, Call("deletePackageVersion", digest, tag)),
                 !.err = Fails(w) \/ ~RemoteHasId(w.rem, id),
                 !.rem = IF Fails(w) THEN @ ELSE DeleteVersion(@, id)]

\* the package recorded as deleted whether or not the call threw
MarkDeletedAnyway(w, digest) ==
  [w EXCEPT !.deleted = @ \cup {digest}, !.n = @ + 1]

\* deleted.add(digest) and the counter, skipped when the call above threw
MarkDeleted(w, digest) ==
  IF w.err THEN w
  ELSE [w EXCEPT !.deleted = @ \cup {digest}, !.n = @ + 1]

\* no package counts as deleted
NeverDeleted(w, digest) == FALSE

\* deleteImage, line 100: this.deleted.has(ghPackage.name)
AlreadyDeleted(w, digest) == digest \in w.deleted

\* deleteImage, lines 122-149: one child descriptor of the deleted image
DeleteChild(w, r, cfg, parent, c) ==
  IF w.err \/ ~HasPackage(r, c) \/ c \in w.deleted \/ c \notin DOMAIN w.usedBy
  THEN w
  ELSE IF w.usedBy[c] = {parent}
  THEN LET w1 == MarkDeleted(
                   DeletePackageVersion(w, cfg, GetPackageByDigest(r, c).id, c,
                                        <<>>),
                   c)
       IN IF w1.err THEN w1
          ELSE [w1 EXCEPT !.usedBy = [d \in (DOMAIN @) \ {c} |-> @[d]]]
  ELSE [w EXCEPT !.usedBy[c] = @ \ {parent}]

RECURSIVE DeleteChildren(_, _, _, _, _)
DeleteChildren(w, r, cfg, parent, children) ==
  IF children = <<>> THEN w
  ELSE DeleteChildren(DeleteChild(w, r, cfg, parent, Head(children)),
                      r, cfg, parent, Tail(children))

RECURSIVE DeleteImage(_, _, _, _)
RECURSIVE DeleteReferrers(_, _, _, _)

\* deleteImage(ghPackage): the counters are accumulated in w.n and w.multi
DeleteImage(w, r, cfg, ghPackage) ==
  IF w.err \/ AlreadyDeleted(w, ghPackage.name) THEN w
  ELSE LET w1 == FetchManifest(w, ghPackage.name)
           w2 == MarkDeleted(
                   DeletePackageVersion(w1, cfg, ghPackage.id, ghPackage.name,
                                        <<>>),
                   ghPackage.name)
           m == Manifest(w.rem, ghPackage.name)
           w3 == IF w2.err \/ ~IsIndex(m) THEN w2
                 ELSE DeleteChildren([w2 EXCEPT !.multi = @ + 1], r, cfg,
                                     ghPackage.name, m.manifests)
       IN DeleteReferrers(w3, r, cfg,
                          SetToSeq(ReferrerTags(r, ghPackage.name)))

\* the referrers left in place
KeepReferrers(w, r, cfg, tags) == w

\* deleteImage, lines 152-168: the packages tagged as referrers of the image
DeleteReferrers(w, r, cfg, tags) ==
  IF w.err \/ tags = <<>> THEN w
  ELSE LET d == GetDigestByTag(r, Head(tags))
       IN DeleteReferrers(
            IF d # <<>> /\ HasPackage(r, d)
            THEN DeleteImage(w, r, cfg, GetPackageByDigest(r, d)) ELSE w,
            r, cfg, Tail(tags))

\* the for loop of deleteImages; a digest without package makes the
\* call deleteImage(undefined) throw
RECURSIVE DeleteAll(_, _, _, _)
DeleteAll(w, r, cfg, digests) ==
  IF w.err \/ digests = <<>> THEN w
  ELSE DeleteAll(
         IF HasPackage(r, Head(digests))
         THEN DeleteImage(w, r, cfg, GetPackageByDigest(r, Head(digests)))
         ELSE [w EXCEPT !.err = TRUE],
         r, cfg, Tail(digests))

\* the empty manifest that performUntagging writes under the tag
EmptyManifest(m) ==
  IF IsIndex(m) THEN [m EXCEPT !.manifests = <<>>] ELSE [m EXCEPT !.layers = 0]

\* the manifest written whatever the mode
WriteManifestLive(w, cfg, tag, m) ==
  [w EXCEPT !.calls = Append(@, Call("putManifest",
                                     DigestOfManifest(w.rem, m), tag)),
            !.rem = PutManifest(@, tag, m, cfg.now)]

\* registry.putManifest(tag, manifest, isIndex): no write in dry-run mode
WriteManifest(w, cfg, tag, m) ==
  IF w.err THEN w
  ELSE [w EXCEPT !.calls = Append(@, Call("putManifest",
                                          DigestOfManifest(w.rem, m), tag)),
                 !.err = ~cfg.dryRun /\ Fails(w),
                 !.rem = IF cfg.dryRun \/ Fails(w) THEN @
                         ELSE PutManifest(@, tag, m, cfg.now)]

\* primeManifests(deleteSet): the manifests of the delete set and of the
\* packages tagged as their referrers are fetched
RECURSIVE FetchAll(_, _)
FetchAll(w, digests) ==
  IF w.err \/ digests = <<>> THEN w
  ELSE FetchAll(FetchManifest(w, Head(digests)), Tail(digests))

RECURSIVE PrimeManifests(_, _, _)
PrimeManifests(w, r, ds) ==
  IF w.err \/ ds = <<>> THEN w
  ELSE LET ts == SelectSeq(SetToSeq(ReferrerTags(r, Head(ds))),
                           LAMBDA t : GetDigestByTag(r, t) # <<>>)
       IN PrimeManifests(
            FetchAll(FetchManifest(w, Head(ds)),
                     [i \in 1..Len(ts) |-> GetDigestByTag(r, ts[i])]),
            r, Tail(ds))

\* deleteImages(deleteSet): prime the manifests, then delete every entry
DeleteImages(w, r, cfg, ds) ==
  DeleteAll(PrimeManifests([w EXCEPT !.n = 0, !.multi = 0], r, ds), r, cfg, ds)

\* the recheck with any tag left instead of several
HasAnyTag(r, digest) == TagCount(r, digest) > 0

\* performUntagging, line 42: the recheck before a tag is detached
HasSeveralTags(r, digest) == TagCount(r, digest) > 1

\* one tag of the plan, with an error raised when the package written
\* under the tag is not found in the snapshot
UntagTagStrict(w, r, cfg, digest, tag, stale) ==
  IF ~HasPackage(r, digest) THEN [w |-> [w EXCEPT !.err = TRUE], r |-> r]
  ELSE IF ~HasSeveralTags(r, digest) THEN [w |-> w, r |-> r]
  ELSE LET w1 == FetchManifest(w, digest)
           w2 == IF w1.err THEN w1
                 ELSE WriteManifest(w1, cfg, tag,
                                    EmptyManifest(Manifest(w.rem, digest)))
           w3 == IF w2.err THEN w2
                 ELSE [w2 EXCEPT !.calls = Append(@, Call("loadPackages", <<>>, <<>>)),
                                 !.err = Fails(w2)]
           r1 == LoadPackages(r, IF stale THEN w.rem.pkgs ELSE w3.rem.pkgs, FALSE)
           untaggedDigest == GetDigestByTag(r1, tag)
           id == GetIdByDigest(r1, untaggedDigest)
       IN IF w3.err THEN [w |-> w3, r |-> r]
          ELSE IF untaggedDigest # <<>> /\ id # 0
          THEN [w |-> DeletePackageVersion(w3, cfg, id, untaggedDigest, tag),
                r |-> r1]
          ELSE [w |-> [w3 EXCEPT !.err = TRUE], r |-> r1]

\* performUntagging, lines 38-84: one tag of the plan.  With stale the
\* packages API answers the loadPackages call with the listing from before
\* the manifest write.  The result holds the session and the snapshot.
UntagTag(w, r, cfg, digest, tag, stale) ==
  IF ~HasPackage(r, digest) THEN [w |-> [w EXCEPT !.err = TRUE], r |-> r]
  ELSE IF ~HasSeveralTags(r, digest) THEN [w |-> w, r |-> r]
  ELSE LET w1 == FetchManifest(w, digest)
           w2 == IF w1.err THEN w1
                 ELSE WriteManifest(w1, cfg, tag,
                                    EmptyManifest(Manifest(w.rem, digest)))
           w3 == IF w2.err THEN w2
                 ELSE [w2 EXCEPT !.calls = Append(@, Call("loadPackages", <<>>, <<>>)),
                                 !.err = Fails(w2)]
           r1 == LoadPackages(r, IF stale THEN w.rem.pkgs ELSE w3.rem.pkgs, FALSE)
           untaggedDigest == GetDigestByTag(r1, tag)
           id == GetIdByDigest(r1, untaggedDigest)
       IN IF w3.err THEN [w |-> w3, r |-> r]
          ELSE IF untaggedDigest # <<>> /\ id # 0
          THEN [w |-> DeletePackageVersion(w3, cfg, id, untaggedDigest, tag),
                r |-> r1]
          ELSE [w |-> w3, r |-> r1]

----------------------------------------------------------------------------
(* Orchestrator *)

\* the untag operations as the sequence of (digest, tag) pairs visited
RECURSIVE UntagQueue(_)
UntagQueue(ops) ==
  IF ops = <<>> THEN <<>>
  ELSE [i \in 1..Len(Head(ops).tags) |->
          [digest |-> Head(ops).digest, tag |-> Head(ops).tags[i]]]
       \o UntagQueue(Tail(ops))

EmptyPlan == [deleteSet |-> <<>>, untagOperations |-> <<>>, queue |-> <<>>]

\* reload(): what the orchestrator holds afterwards
Reloaded(rem, cfg) ==
  LET r == LoadPackages([pkgs |-> <<>>, t2d |-> EmptyMap], rem.pkgs, TRUE)
  IN [repo |-> r,
      digestUsedBy |-> LoadDigestUsedByMap(rem, r),
      excludeTags |-> ExcludedStrings(cfg, r),
      filterSet |-> ApplyAgeFilter(cfg, r,
                      ApplyExclusionFilters(cfg, r, InitFilterSet(rem, r)))]

\* the session the image deleter works on in the current state
CurrentSession ==
  [Session(remote, deleted, digestUsedBy, calls) EXCEPT !.failAt = fault]

\* the snapshot load about to be issued is the call the service fails; the
\* rejection leaves reload after deleteSet.clear()
LoadFails == Fails(CurrentSession)

\* main.ts: orchestrator.reload() before run
Reload ==
  /\ pc = "reload"
  /\ calls' = Append(calls, Call("loadPackages", <<>>, RESET))
  /\ IF LoadFails
     THEN /\ pc' = "failed"
          /\ deleteSet' = <<>>
          /\ UNCHANGED <<repo, digestUsedBy, excludeTags, filterSet, deleted>>
     ELSE /\ LET st == Reloaded(remote, config) IN
               /\ repo' = st.repo
               /\ digestUsedBy' = st.digestUsedBy
               /\ excludeTags' = st.excludeTags
               /\ filterSet' = st.filterSet
          /\ deleteSet' = <<>>
          /\ deleted' = {}
          /\ pc' = "tags"
  /\ UNCHANGED <<remote, snapshot, config, inputs, targets, fault, globalStatistics,
                 perPackageStats, statistics, plan, result>>

\* run, lines 87-98 and 108-111: the tag deletion plan; without untag
\* operations its delete set is staged at once
PlanTagDeletions ==
  /\ pc = "tags"
  /\ LET p == ProcessTagDeletions(config, repo, filterSet, excludeTags) IN
       IF config.deleteTags = <<>>
       THEN /\ pc' = "select"
            /\ UNCHANGED <<plan, filterSet, deleteSet>>
       ELSE /\ filterSet' = p.filterSet
            /\ plan' = [deleteSet |-> p.deleteSet,
                        untagOperations |-> p.untagOperations,
                        queue |-> UntagQueue(p.untagOperations)]
            /\ IF p.untagOperations # <<>>
               THEN pc' = "untag" /\ UNCHANGED deleteSet
               ELSE /\ pc' = "select"
                    /\ deleteSet' = SetAddAll(deleteSet, p.deleteSet)
  /\ UNCHANGED <<remote, snapshot, repo, config, inputs, targets, fault, globalStatistics,
                 perPackageStats, excludeTags, digestUsedBy, deleted,
                 statistics, calls, result>>

\* performUntagging, one iteration of the inner loop; the packages API
\* lists the written manifest right after the write
UntagStep ==
  /\ pc = "untag"
  /\ plan.queue # <<>>
  /\ LET u == UntagTag(CurrentSession, repo, config,
                       Head(plan.queue).digest, Head(plan.queue).tag, FALSE)
     IN /\ remote' = u.w.rem
        /\ repo' = u.r
        /\ calls' = u.w.calls
        /\ pc' = IF u.w.err THEN "failed" ELSE "untag"
  /\ plan' = [plan EXCEPT !.queue = Tail(@)]
  /\ UNCHANGED <<snapshot, config, inputs, targets, fault, globalStatistics,
                 perPackageStats, filterSet, deleteSet, excludeTags,
                 digestUsedBy, deleted, statistics, result>>

\* the plan of the stale snapshot staged without a reload
FinishUntaggingNoReload ==
  /\ pc = "untag"
  /\ plan.queue = <<>>
  /\ deleteSet' = SetAddAll(<<>>, plan.deleteSet)
  /\ result' = TRUE
  /\ pc' = "select"
  /\ UNCHANGED <<remote, snapshot, repo, config, inputs, targets, fault, globalStatistics,
                 perPackageStats, filterSet, excludeTags,
                 digestUsedBy, deleted, statistics, plan, calls>>

\* the reload is done but the delete set of the plan computed before it is
\* staged
FinishUntaggingStalePlan ==
  /\ pc = "untag"
  /\ plan.queue = <<>>
  /\ result' = TRUE
  /\ calls' = Append(calls, Call("loadPackages", <<>>, RESET))
  /\ LET st == Reloaded(remote, config)
     IN /\ repo' = st.repo
        /\ digestUsedBy' = st.digestUsedBy
        /\ excludeTags' = st.excludeTags
        /\ filterSet' = SetDeleteAll(st.filterSet, Range(plan.deleteSet))
        /\ deleteSet' = SetAddAll(<<>>, plan.deleteSet)
  /\ deleted' = {}
  /\ pc' = "select"
  /\ UNCHANGED <<remote, snapshot, config, inputs, targets, fault, globalStatistics,
                 perPackageStats, statistics,
                 plan>>

\* run, lines 99-103 and 112-121: performUntagging returned true, the
\* orchestrator reloads and stages the plan of the fresh snapshot
FinishUntagging ==
  /\ pc = "untag"
  /\ plan.queue = <<>>
  /\ result' = TRUE
  /\ calls' = Append(calls, Call("loadPackages", <<>>, RESET))
  /\ IF LoadFails
     THEN /\ pc' = "failed"
          /\ deleteSet' = <<>>
          /\ UNCHANGED <<repo, digestUsedBy, excludeTags, filterSet, deleted>>
     ELSE /\ LET st == Reloaded(remote, config)
                 p == ProcessTagDeletions(config, st.repo, st.filterSet,
                                          st.excludeTags)
             IN /\ repo' = st.repo
                /\ digestUsedBy' = st.digestUsedBy
                /\ excludeTags' = st.excludeTags
                /\ filterSet' = p.filterSet
                /\ deleteSet' = SetAddAll(<<>>, p.deleteSet)
          /\ deleted' = {}
          /\ pc' = "select"
  /\ UNCHANGED <<remote, snapshot, config, inputs, targets, fault, globalStatistics,
                 perPackageStats, statistics, plan>>

\* deleteAllUntagged: the filter set afterwards
AfterDeleteAllUntagged(r, fs) ==
  SetDeleteAll(fs, Range(DeleteAllUntagged(r, fs)))

\* the selection with the ghost images added next to the partial ones
InvalidImagesBoth(cfg, rem, r, fs) ==
  LET part == IF cfg.deletePartialImages THEN FindPartialImages(rem, r, fs)
              ELSE <<>>
      first == IF cfg.deleteGhostImages
               THEN SetAddAll(part, FindGhostImages(rem, r, fs)) ELSE part
  IN IF cfg.deleteOrphanedImages
     THEN SetAddAll(first, FindOrphanedImages(r)) ELSE first

\* run, lines 124-149: ghost / partial / orphaned selection
InvalidImages(cfg, rem, r, fs) ==
  LET first == IF cfg.deletePartialImages THEN FindPartialImages(rem, r, fs)
               ELSE IF cfg.deleteGhostImages THEN FindGhostImages(rem, r, fs)
               ELSE <<>>
  IN IF cfg.deleteOrphanedImages
     THEN SetAddAll(first, FindOrphanedImages(r)) ELSE first

SelectInvalidImages ==
  /\ pc = "select"
  /\ LET sel == InvalidImages(config, remote, repo, filterSet) IN
       /\ deleteSet' = SetAddAll(deleteSet, sel)
       /\ filterSet' = SetDeleteAll(filterSet, Range(sel))
  /\ pc' = "keep"
  /\ UNCHANGED <<remote, snapshot, repo, config, inputs, targets, fault, globalStatistics,
                 perPackageStats, excludeTags, digestUsedBy, deleted,
                 statistics, plan, calls, result>>

\* run, lines 151-169: the delete set and the filter set after keep-n-tagged,
\* then keep-n-untagged or delete-untagged
KeepPolicies(cfg, r, fs, ds) ==
  LET t == IF cfg.keepNtagged # -1 THEN KeepNTagged(cfg, r, fs) ELSE <<>>
      fs1 == IF cfg.keepNtagged # -1
             THEN AfterKeepNTagged(cfg, r, fs) ELSE fs
      u == IF cfg.keepNuntagged # -1
           THEN KeepNUntagged(cfg, r, fs1)
           ELSE IF cfg.deleteUntagged
           THEN DeleteAllUntagged(r, fs1) ELSE <<>>
  IN [deleteSet |-> SetAddAll(SetAddAll(ds, t), u),
      filterSet |-> SetDeleteAll(fs1, Range(u))]

\* run, lines 151-169: keep-n-tagged, then keep-n-untagged or delete-untagged
ApplyKeepPolicies ==
  /\ pc = "keep"
  /\ deleteSet' = KeepPolicies(config, repo, filterSet, deleteSet).deleteSet
  /\ filterSet' = KeepPolicies(config, repo, filterSet, deleteSet).filterSet
  /\ pc' = "delete"
  /\ UNCHANGED <<remote, snapshot, repo, config, inputs, targets, fault, globalStatistics,
                 perPackageStats, excludeTags, digestUsedBy, deleted,
                 statistics, plan, calls, result>>

\* run, lines 171-176: deleteImages(deleteSet) and the statistics
DeleteStaged ==
  /\ pc = "delete"
  /\ LET w == DeleteImages(CurrentSession, repo, config, deleteSet)
     IN /\ remote' = w.rem
        /\ deleted' = w.deleted
        /\ digestUsedBy' = w.usedBy
        /\ calls' = w.calls
        /\ IF w.err
           THEN pc' = "failed" /\ UNCHANGED statistics
           ELSE /\ pc' = "finish"
                /\ statistics' = [numberImagesDeleted |-> w.n,
                                  numberMultiImagesDeleted |-> w.multi]
  /\ UNCHANGED <<snapshot, repo, config, inputs, targets, fault, globalStatistics,
                 perPackageStats, filterSet, deleteSet, excludeTags, plan, result>>

\* validate(), lines 23-49: the loop over the digests; st.digests is the
\* Set being iterated, st.processed is processedManifests
RECURSIVE ValidateLoop(_, _, _, _, _)
ValidateLoop(rem, r, all, i, st) ==
  IF i > Len(all) THEN st
  ELSE IF ~Has(st.digests, all[i]) \/ all[i] \in st.processed
  THEN ValidateLoop(rem, r, all, i + 1, st)
  ELSE LET cs == Range(Children(Manifest(rem, all[i]))) IN
       ValidateLoop(rem, r, all, i + 1,
         [digests |-> SetDeleteAll(st.digests, cs),
          processed |-> st.processed \cup cs,
          hasErrors |-> st.hasErrors
                        \/ \E c \in cs : GetIdByDigest(r, c) = 0])

\* validate(): the hasErrors flag of the result
Validate(rem, r) ==
  \/ ValidateLoop(rem, r, GetDigests(r), 1,
                  [digests |-> GetDigests(r), processed |-> {},
                   hasErrors |-> FALSE]).hasErrors
  \/ \E t \in GetTags(r) :
       StartsWith(t, <<SHA_DASH>>) /\ GetIdByDigest(r, ParentOfTag(t)) = 0

\* the end of run with the findings of validate treated as a failure
FinishRunAbortOnErrors ==
  /\ pc = "finish"
  /\ IF config.validate /\ LoadFails
     THEN /\ calls' = Append(calls, Call("loadPackages", <<>>, RESET))
          /\ pc' = "failed"
          /\ deleteSet' = <<>>
          /\ UNCHANGED <<repo, digestUsedBy, excludeTags, filterSet, deleted,
                         result>>
     ELSE IF config.validate
     THEN LET st == Reloaded(remote, config) IN
            /\ repo' = st.repo
            /\ digestUsedBy' = st.digestUsedBy
            /\ excludeTags' = st.excludeTags
            /\ filterSet' = st.filterSet
            /\ deleteSet' = <<>>
            /\ deleted' = {}
            /\ calls' = Append(calls, Call("loadPackages", <<>>, RESET))
            /\ result' = Validate(remote, st.repo)
            /\ pc' = IF Validate(remote, st.repo) THEN "failed" ELSE "done"
     ELSE /\ pc' = "done"
          /\ UNCHANGED <<repo, digestUsedBy, excludeTags, filterSet, deleteSet,
                         deleted, calls, result>>
  /\ UNCHANGED <<remote, snapshot, config, inputs, targets, fault, globalStatistics,
                 perPackageStats, statistics, plan>>

\* run, lines 178-189: the statistics are returned, after the validation
\* task when it is requested
FinishRun ==
  /\ pc = "finish"
  /\ IF config.validate /\ LoadFails
     THEN /\ calls' = Append(calls, Call("loadPackages", <<>>, RESET))
          /\ pc' = "failed"
          /\ deleteSet' = <<>>
          /\ UNCHANGED <<repo, digestUsedBy, excludeTags, filterSet, deleted,
                         result>>
     ELSE IF config.validate
     THEN LET st == Reloaded(remote, config) IN
            /\ repo' = st.repo
            /\ digestUsedBy' = st.digestUsedBy
            /\ excludeTags' = st.excludeTags
            /\ filterSet' = st.filterSet
            /\ deleteSet' = <<>>
            /\ deleted' = {}
            /\ calls' = Append(calls, Call("loadPackages", <<>>, RESET))
            /\ result' = Validate(remote, st.repo)
            /\ pc' = "done"
     ELSE /\ pc' = "done"
          /\ UNCHANGED <<repo, digestUsedBy, excludeTags, filterSet, deleteSet,
                         deleted, calls, result>>
  /\ UNCHANGED <<remote, snapshot, config, inputs, targets, fault, globalStatistics,
                 perPackageStats, statistics, plan>>

----------------------------------------------------------------------------
(* Initial states: package snapshots and option combinations *)

\* the packages of the model
P == Dg("1")
Q == Dg("2")
C == Dg("3")
D == Dg("4")
\* a digest that never has a package: a missing child, a missing parent
X == Dg("5")
\* a signature or attestation
R == Dg("6")
\* ordinary tags
TagA == <<"a">>
TagB == <<"b">>
TagC == <<"c">>

\* the options of a run in which nothing is set
DefaultConfig ==
  [deleteTags |-> <<>>, excludeTags |-> <<>>, olderThan |-> 0,
   now |-> MaxTime + 1, keepNtagged |-> -1, keepNuntagged |-> -1,
   deleteUntagged |-> FALSE, deleteGhostImages |-> FALSE,
   deletePartialImages |-> FALSE, deleteOrphanedImages |-> FALSE,
   dryRun |-> FALSE, validate |-> FALSE]

\* new CleanupTaskStatistics(name, 0, 0)
NoStatistics == [numberImagesDeleted |-> 0, numberMultiImagesDeleted |-> 0]

\* the inputs of an action on which no option is given: every getInput
\* returns the empty string
NoInputs ==
  [tags |-> <<>>, deleteTags |-> <<>>, excludeTags |-> <<>>,
   olderThan |-> <<>>, keepNtagged |-> <<>>, keepNuntagged |-> <<>>,
   deleteUntagged |-> <<>>, deleteGhostImages |-> <<>>,
   deletePartialImages |-> <<>>, deleteOrphanedImages |-> <<>>,
   dryRun |-> <<>>, validate |-> <<>>]

\* buildConfig rejects delete-untagged together with a non-zero keep-n-untagged
ValidConfig(cfg) == ~(cfg.keepNuntagged >= 1 /\ cfg.deleteUntagged)

\* the store holding the packages ps, whose manifests are given by kids:
\* kids[d] is LEAF or the list of the children of the index d
LEAF == << <<"leaf">> >>
Store(ps, kids) ==
  [pkgs |-> ps,
   manifests |-> [d \in DOMAIN kids |->
                    IF kids[d] = LEAF THEN LeafManifest(d[2])
                    ELSE IndexManifest(d[2], kids[d])],
   nextId |-> 10]

\* the state of a freshly constructed orchestrator for the store rem
Constructed(rem, cfg, start) ==
  /\ remote = rem
  /\ snapshot = rem
  /\ config = cfg
  /\ inputs = NoInputs
  /\ globalStatistics = NoStatistics
  /\ perPackageStats = <<>>
  /\ targets = <<>>
  /\ fault = 0
  /\ repo = [pkgs |-> <<>>, t2d |-> EmptyMap]
  /\ filterSet = <<>>
  /\ deleteSet = <<>>
  /\ excludeTags = <<>>
  /\ digestUsedBy = EmptyMap
  /\ deleted = {}
  /\ statistics = [numberImagesDeleted |-> 0, numberMultiImagesDeleted |-> 0]
  /\ plan = EmptyPlan
  /\ calls = <<>>
  /\ result = FALSE
  /\ pc = start

\* the lists of children an index may have, drawn from the digests S
ChildLists(S) == {SetToSeq(T) : T \in SUBSET S}

\* multi-architecture snapshots: P and Q are images or indexes, P over Q, C,
\* D and the missing X, Q over C and D or over P; either listing order
GraphStores ==
  { Store(IF rev THEN <<Package(D, 4, {}, 1), Package(C, 3, {}, 1),
                        Package(Q, 2, tq, 1), Package(P, 1, tp, 1)>>
          ELSE <<Package(P, 1, tp, 1), Package(Q, 2, tq, 1),
                 Package(C, 3, {}, 1), Package(D, 4, {}, 1)>>,
          (P :> kp) @@ (Q :> kq) @@ (C :> LEAF) @@ (D :> LEAF)) :
      rev \in BOOLEAN, tp \in {{}, {TagA}}, tq \in {{}, {TagB}},
      kp \in {LEAF} \cup ChildLists({Q, C, D, X}),
      kq \in {LEAF, <<P>>} \cup ChildLists({C, D}) }

GraphConfigs ==
  { [DefaultConfig EXCEPT !.deleteTags = dt, !.deleteUntagged = du,
                          !.deleteGhostImages = inv = "ghost",
                          !.deletePartialImages = inv = "partial"] :
      dt \in {<<>>, <<TagA>>}, du \in BOOLEAN,
      inv \in {"none", "ghost", "partial"} }

InitGraph ==
  \E rem \in GraphStores, cfg \in GraphConfigs : Constructed(rem, cfg, "reload")

\* three images P, Q, C; every tag sits on one of them or on none
LeafKids == (P :> LEAF) @@ (Q :> LEAF) @@ (C :> LEAF)
           @@ (D :> LEAF)

TaggedStores ==
  { Store(<<Package(P, 1, {t \in DOMAIN at : at[t] = P}, 3),
            Package(Q, 2, {t \in DOMAIN at : at[t] = Q}, 2),
            Package(C, 3, {t \in DOMAIN at : at[t] = C}, 1)>>, LeafKids) :
      at \in [{TagA, TagB, TagC} -> {P, Q, C, X}] }

TagConfigs ==
  { [DefaultConfig EXCEPT !.deleteTags = dt, !.excludeTags = et,
                          !.keepNtagged = kt, !.deleteUntagged = du] :
      dt \in {<<>>, <<TagA>>, <<TagA, TagB>>, <<STAR>>, <<P>>},
      et \in {<<>>, <<TagA>>, <<TagC>>, <<P>>},
      kt \in {-1, 1}, du \in BOOLEAN }

InitTags ==
  \E rem \in TaggedStores, cfg \in TagConfigs : Constructed(rem, cfg, "reload")

\* images with every combination of dates, for the keep-n and age options
DatedStores ==
  { Store(<<Package(P, 1, ts[1], ut[1]), Package(Q, 2, ts[2], ut[2]),
            Package(C, 3, ts[3], ut[3])>>, LeafKids) :
      ut \in [1..3 -> 1..MaxTime],
      ts \in {<<{}, {}, {}>>, <<{TagA}, {TagB}, {TagC}>>,
              <<{TagA, TagB}, {}, {TagC}>>, <<{}, {TagA}, {}>>} }

KeepConfigs ==
  { cfg \in
      { [DefaultConfig EXCEPT !.deleteTags = dt, !.keepNtagged = kt,
                              !.keepNuntagged = ku, !.olderThan = ot,
                              !.excludeTags = et] :
          dt \in {<<>>, <<STAR>>}, kt \in -1..MaxKeepN, ku \in -1..MaxKeepN,
          ot \in {0, 2}, et \in {<<>>, <<TagA>>} } :
      ValidConfig(cfg) }

InitDated ==
  \E rem \in DatedStores, cfg \in KeepConfigs : Constructed(rem, cfg, "reload")

\* signatures and attestations: R is tagged as referrer of P, D as referrer
\* of Q, of the missing X or of R; P may be an index over C
ReferrerStores ==
  { Store(<<Package(P, 1, tp, 1), Package(C, 3, {}, 1),
            Package(R, 6, {RefTag("1", <<".sig">>)}, 1),
            Package(D, 4, {RefTag(of, <<>>)}, 1)>>,
          (P :> kp) @@ (R :> kr) @@ LeafKids) :
      tp \in {{}, {TagA}}, of \in {"1", "5", "6"},
      kp \in {LEAF, <<C>>}, kr \in {LEAF, <<C>>} }

ReferrerConfigs ==
  { [DefaultConfig EXCEPT !.deleteTags = dt, !.deleteUntagged = du,
                          !.deleteOrphanedImages = orph, !.validate = va,
                          !.excludeTags = et, !.olderThan = ot] :
      dt \in {<<>>, <<TagA>>}, du \in BOOLEAN, orph \in BOOLEAN,
      va \in BOOLEAN, et \in {<<>>, <<RefTag("5", <<>>)>>, <<STAR>>},
      ot \in {0, MaxTime} }

InitReferrers ==
  \E rem \in ReferrerStores, cfg \in ReferrerConfigs :
    Constructed(rem, cfg, "reload")

\* the state of an orchestrator that has loaded the store rem, with the
\* candidate set fs and the used-by map usedBy
Loaded(rem, cfg, fs, usedBy, start) ==
  /\ remote = rem
  /\ config = cfg
  /\ inputs = NoInputs
  /\ globalStatistics = NoStatistics
  /\ perPackageStats = <<>>
  /\ targets = <<>>
  /\ fault = 0
  /\ repo = LoadPackages([pkgs |-> <<>>, t2d |-> EmptyMap], rem.pkgs, TRUE)
  /\ filterSet = fs
  /\ deleteSet = <<>>
  /\ excludeTags = ExcludedStrings(cfg, repo)
  /\ digestUsedBy = usedBy
  /\ deleted = {}
  /\ statistics = [numberImagesDeleted |-> 0, numberMultiImagesDeleted |-> 0]
  /\ calls = <<>>
  /\ pc = start

\* the candidate sets over the packages of the store rem: Sets of digests
\* in listing order
CandidateSets(rem) ==
  {SelectSeq([i \in 1..Len(rem.pkgs) |-> rem.pkgs[i].name],
             LAMBDA d : d \in S) :
     S \in SUBSET {rem.pkgs[i].name : i \in 1..Len(rem.pkgs)}}

----------------------------------------------------------------------------
(* A pass of the orchestrator over one target package *)

Init == InitGraph \/ InitTags \/ InitDated \/ InitReferrers

Next ==
  \/ Reload
  \/ PlanTagDeletions
  \/ UntagStep
  \/ FinishUntagging
  \/ SelectInvalidImages
  \/ ApplyKeepPolicies
  \/ DeleteStaged
  \/ FinishRun

Spec == Init /\ [][Next]_vars

----------------------------------------------------------------------------
(* A run over the list of target packages in which one call may fail *)

\* the largest ordinal of the call that fails
MaxFault == 6

\* stores in which a tag is detached, a child cascades or a referrer follows
FaultyStores ==
  {rem \in TaggedStores : TagA \in rem.pkgs[1].tags} \cup ReferrerStores

FaultyConfigs ==
  { [DefaultConfig EXCEPT !.deleteTags = dt, !.deleteUntagged = du,
                          !.validate = va] :
      dt \in {<<>>, <<TagA>>}, du \in BOOLEAN, va \in BOOLEAN }

\* main.ts, lines 83-89: the orchestrator of the first target package has
\* been constructed; rest holds the stores of the packages after it
InitFaulty ==
  \E rem \in FaultyStores, cfg \in FaultyConfigs, more \in BOOLEAN,
     k \in 0..MaxFault :
    /\ remote = rem
    /\ snapshot = rem
    /\ config = cfg
    /\ inputs = NoInputs
    /\ globalStatistics = NoStatistics
    /\ perPackageStats = <<>>
    /\ targets = IF more THEN <<rem>> ELSE <<>>
    /\ fault = k
    /\ repo = [pkgs |-> <<>>, t2d |-> EmptyMap]
    /\ filterSet = <<>>
    /\ deleteSet = <<>>
    /\ excludeTags = <<>>
    /\ digestUsedBy = EmptyMap
    /\ deleted = {}
    /\ statistics = [numberImagesDeleted |-> 0, numberMultiImagesDeleted |-> 0]
    /\ plan = EmptyPlan
    /\ calls = <<>>
    /\ result = FALSE
    /\ pc = "reload"

\* CleanupTaskStatistics.add
StatisticsAdd(a, b) ==
  [numberImagesDeleted |-> a.numberImagesDeleted + b.numberImagesDeleted,
   numberMultiImagesDeleted |->
     a.numberMultiImagesDeleted + b.numberMultiImagesDeleted]

\* the loop with the combined statistics replaced by those of the last run
NextTargetOverwrite ==
  /\ pc = "done"
  /\ targets # <<>>
  /\ perPackageStats' = Append(perPackageStats, statistics)
  /\ globalStatistics' = statistics
  /\ remote' = Head(targets)
  /\ snapshot' = Head(targets)
  /\ targets' = Tail(targets)
  /\ repo' = [pkgs |-> <<>>, t2d |-> EmptyMap]
  /\ filterSet' = <<>>
  /\ deleteSet' = <<>>
  /\ excludeTags' = <<>>
  /\ digestUsedBy' = EmptyMap
  /\ deleted' = {}
  /\ statistics' = NoStatistics
  /\ plan' = EmptyPlan
  /\ result' = FALSE
  /\ pc' = "reload"
  /\ UNCHANGED <<config, inputs, fault, calls>>

\* main.ts, lines 83-94: run of one package has returned, its statistics
\* are pushed and added to the combined ones, and the loop constructs the
\* orchestrator of the next target package
NextTarget ==
  /\ pc = "done"
  /\ targets # <<>>
  /\ perPackageStats' = Append(perPackageStats, statistics)
  /\ globalStatistics' = StatisticsAdd(globalStatistics, statistics)
  /\ remote' = Head(targets)
  /\ snapshot' = Head(targets)
  /\ targets' = Tail(targets)
  /\ repo' = [pkgs |-> <<>>, t2d |-> EmptyMap]
  /\ filterSet' = <<>>
  /\ deleteSet' = <<>>
  /\ excludeTags' = <<>>
  /\ digestUsedBy' = EmptyMap
  /\ deleted' = {}
  /\ statistics' = NoStatistics
  /\ plan' = EmptyPlan
  /\ result' = FALSE
  /\ pc' = "reload"
  /\ UNCHANGED <<config, inputs, fault, calls>>

NextFaulty == Next \/ NextTarget

SpecFaulty == InitFaulty /\ [][NextFaulty]_vars

----------------------------------------------------------------------------
(* A run of the action over several target packages *)

\* the stores of the target packages: nothing to delete, a tagged image
\* with a signature, an index with its child and a signature, an image
\* with two tags
MultiStores ==
  {rem \in ReferrerStores :
     rem.pkgs[4].tags = {RefTag("6", <<>>)} /\ Manifest(rem, R) = LeafManifest("6")}
  \cup {rem \in TaggedStores :
          rem.pkgs[1].tags = {TagA, TagB} /\ rem.pkgs[2].tags = {TagC}}

MultiConfigs ==
  { [DefaultConfig EXCEPT !.deleteTags = dt, !.deleteUntagged = du] :
      dt \in {<<>>, <<TagA>>}, du \in BOOLEAN }

\* main.ts, lines 81-89: the combined statistics start at zero and the
\* orchestrator of the first target package has been constructed
InitMulti ==
  \E first \in MultiStores, cfg \in MultiConfigs :
    \E rest \in {<<>>} \cup {<<a>> : a \in MultiStores}
                 \cup {<<a, b>> : a \in MultiStores, b \in MultiStores} :
      /\ remote = first
      /\ snapshot = first
      /\ config = cfg
      /\ inputs = NoInputs
      /\ globalStatistics = NoStatistics
      /\ perPackageStats = <<>>
      /\ targets = rest
      /\ fault = 0
      /\ repo = [pkgs |-> <<>>, t2d |-> EmptyMap]
      /\ filterSet = <<>>
      /\ deleteSet = <<>>
      /\ excludeTags = <<>>
      /\ digestUsedBy = EmptyMap
      /\ deleted = {}
      /\ statistics = NoStatistics
      /\ plan = EmptyPlan
      /\ calls = <<>>
      /\ result = FALSE
      /\ pc = "reload"

\* main.ts, lines 90-98: run of the last package has returned, its
\* statistics are pushed and added, and the loop ends
LoopEnds ==
  /\ pc = "done"
  /\ targets = <<>>
  /\ perPackageStats' = Append(perPackageStats, statistics)
  /\ globalStatistics' = StatisticsAdd(globalStatistics, statistics)
  /\ pc' = "exit"
  /\ UNCHANGED <<remote, snapshot, repo, config, inputs, targets, fault,
                 filterSet, deleteSet, excludeTags, digestUsedBy, deleted,
                 statistics, plan, calls, result>>

NextMulti == Next \/ NextTarget \/ LoopEnds

SpecMulti == InitMulti /\ [][NextMulti]_vars

----------------------------------------------------------------------------
(* buildConfig: the cleanup options read from the action inputs *)

\* the decimal digits
Digits == <<"0", "1", "2", "3", "4", "5", "6", "7", "8", "9">>
IsDigit(c) == \E i \in 1..Len(Digits) : Digits[i] = c
DigitValue(c) == (CHOOSE i \in 1..Len(Digits) : Digits[i] = c) - 1

\* the value of the digits that s starts with
RECURSIVE LeadingValue(_, _)
LeadingValue(s, acc) ==
  IF s = <<>> \/ ~IsDigit(Head(s)) THEN acc
  ELSE LeadingValue(Tail(s), 10 * acc + DigitValue(Head(s)))

\* parseInt(s): an optional sign and the leading digits, NaN without a digit
ParseInt(s) ==
  LET signed == s # <<>> /\ Head(s) \in {"-", "+"}
      body == IF signed THEN Tail(s) ELSE s
  IN IF body = <<>> \/ ~IsDigit(Head(body)) THEN [nan |-> TRUE, value |-> 0]
     ELSE [nan |-> FALSE,
           value |-> IF signed /\ Head(s) = "-" THEN 0 - LeadingValue(body, 0)
                     ELSE LeadingValue(body, 0)]

\* humanInterval(s): a number and an interval unit, NaN otherwise; the
\* model counts in days
HumanInterval(s) ==
  IF Len(s) = 2 /\ IsDigit(s[1]) /\ s[2] \in {"day", "days"}
  THEN [nan |-> FALSE, value |-> DigitValue(s[1])]
  ELSE [nan |-> TRUE, value |-> 0]

\* core.getBooleanInput(name): true or false, a TypeError for anything else
IsBooleanInput(s) == s \in {<<"true">>, <<"false">>}
GetBooleanInput(s) == s = <<"true">>

\* a number that is set and not zero: what if (config.keepNuntagged) tests
Truthy(n) == n # -1 /\ n # 0

\* the tag options alone
NoTagOption(in) == in.tags = <<>> /\ in.deleteTags = <<>>

\* buildConfig, lines 158-166: no delete or keep option is given
NoCleanupOption(in) ==
  /\ in.tags = <<>>
  /\ in.deleteTags = <<>>
  /\ in.deleteGhostImages = <<>>
  /\ in.deletePartialImages = <<>>
  /\ in.deleteOrphanedImages = <<>>
  /\ in.keepNuntagged = <<>>
  /\ in.keepNtagged = <<>>

\* a throw of buildConfig with the message msg
Thrown(msg) == [error |-> <<msg>>, config |-> DefaultConfig]

\* buildConfig, lines 97-195: the cleanup options of the configuration, or
\* the error thrown; the options are read in the order of the code
BuildConfig(in) ==
  LET ot == HumanInterval(in.olderThan)
      kt == ParseInt(in.keepNtagged)
      ku == ParseInt(in.keepNuntagged)
      keepNuntagged == IF in.keepNuntagged # <<>> THEN ku.value ELSE -1
  IN IF in.tags # <<>> /\ in.deleteTags # <<>>
     THEN Thrown("tags and delete-tags cant be used at the same time, use either one")
     ELSE IF in.olderThan # <<>> /\ ot.nan
     THEN Thrown("older-than value is not a valid interval")
     ELSE IF in.keepNtagged # <<>> /\ kt.nan
     THEN Thrown("keep-n-tagged is not number")
     ELSE IF in.keepNtagged # <<>> /\ kt.value < 0
     THEN Thrown("keep-n-tagged is negative")
     ELSE IF in.keepNuntagged # <<>> /\ ku.nan
     THEN Thrown("keep-n-untagged is not number")
     ELSE IF in.keepNuntagged # <<>> /\ ku.value < 0
     THEN Thrown("keep-n-untagged is negative")
     ELSE IF in.deleteUntagged # <<>> /\ ~IsBooleanInput(in.deleteUntagged)
     THEN Thrown("TypeError")
     ELSE IF Truthy(keepNuntagged) /\ in.deleteUntagged # <<>>
     THEN Thrown("delete-untagged and keep-n-untagged can not be set at the same time")
     ELSE IF \E b \in {in.deleteGhostImages, in.deletePartialImages,
                        in.deleteOrphanedImages, in.dryRun, in.validate} :
               b # <<>> /\ ~IsBooleanInput(b)
     THEN Thrown("TypeError")
     ELSE
       [error |-> <<>>,
        config |->
          [DefaultConfig EXCEPT
             !.deleteTags = IF in.tags # <<>> THEN in.tags ELSE in.deleteTags,
             !.excludeTags = in.excludeTags,
             !.olderThan = IF in.olderThan # <<>> THEN ot.value ELSE 0,
             !.keepNtagged = IF in.keepNtagged # <<>> THEN kt.value ELSE -1,
             !.keepNuntagged = keepNuntagged,
             !.deleteUntagged = IF in.deleteUntagged # <<>>
                                THEN GetBooleanInput(in.deleteUntagged)
                                ELSE NoCleanupOption(in),
             !.deleteGhostImages = GetBooleanInput(in.deleteGhostImages),
             !.deletePartialImages = GetBooleanInput(in.deletePartialImages),
             !.deleteOrphanedImages = GetBooleanInput(in.deleteOrphanedImages),
             !.dryRun = GetBooleanInput(in.dryRun),
             !.validate = GetBooleanInput(in.validate)]]

\* the inputs a workflow may give for the cleanup options
ActionInputs ==
  { [tags |-> t, deleteTags |-> dt, excludeTags |-> et, olderThan |-> ot,
     keepNtagged |-> kt, keepNuntagged |-> ku, deleteUntagged |-> du,
     deleteGhostImages |-> gh, deletePartialImages |-> pa,
     deleteOrphanedImages |-> orph, dryRun |-> fl, validate |-> fl] :
      t \in {<<>>, <<TagA>>}, dt \in {<<>>, <<TagB>>},
      et \in {<<>>, <<TagC>>},
      ot \in {<<>>, <<"2", "days">>, <<"soon">>},
      kt \in {<<>>, <<"1">>, <<"x">>},
      ku \in {<<>>, <<"0">>, <<"1">>, <<"-", "1">>, <<"x">>},
      du \in {<<>>, <<"true">>, <<"false">>, <<"yes">>},
      gh \in {<<>>, <<"true">>, <<"false">>},
      pa \in {<<>>, <<"true">>}, orph \in {<<>>, <<"true">>},
      fl \in {<<>>, <<"true">>} }

\* main.ts, line 15: run is about to call buildConfig
InitConfig ==
  \E in \in ActionInputs :
    /\ inputs = in
    /\ globalStatistics = NoStatistics
    /\ perPackageStats = <<>>
    /\ remote = Store(<<>>, LeafKids)
    /\ snapshot = Store(<<>>, LeafKids)
    /\ config = DefaultConfig
    /\ targets = <<>>
    /\ fault = 0
    /\ repo = [pkgs |-> <<>>, t2d |-> EmptyMap]
    /\ filterSet = <<>>
    /\ deleteSet = <<>>
    /\ excludeTags = <<>>
    /\ digestUsedBy = EmptyMap
    /\ deleted = {}
    /\ statistics = [numberImagesDeleted |-> 0, numberMultiImagesDeleted |-> 0]
    /\ plan = EmptyPlan
    /\ calls = <<>>
    /\ result = [op |-> "none", error |-> <<>>]
    /\ pc = "config"

\* main.ts, lines 13-27: buildConfig returns the configuration or throws,
\* and a throw ends the run with setFailed
CallBuildConfig ==
  /\ pc = "config"
  /\ LET b == BuildConfig(inputs) IN
       /\ result' = [op |-> "buildConfig", error |-> b.error]
       /\ config' = IF b.error = <<>> THEN b.config ELSE config
       /\ pc' = IF b.error = <<>> THEN "built" ELSE "failed"
  /\ UNCHANGED <<remote, snapshot, repo, inputs, targets, fault, globalStatistics,
                 perPackageStats, filterSet,
                 deleteSet, excludeTags, digestUsedBy, deleted, statistics,
                 plan, calls>>

NextConfig == CallBuildConfig

SpecConfig == InitConfig /\ [][NextConfig]_vars

----------------------------------------------------------------------------
(* A pass in dry-run mode *)

\* config.ts, lines 186-191: config.dryRun is the dry-run input when given
DryRunConfigs ==
  { [DefaultConfig EXCEPT !.deleteTags = dt, !.keepNtagged = kt,
                          !.deleteUntagged = du, !.deleteOrphanedImages = du,
                          !.validate = du, !.dryRun = dry] :
      dt \in {<<>>, <<TagA>>, <<TagA, TagB>>}, kt \in {-1, 1},
      du \in BOOLEAN, dry \in BOOLEAN }

InitDryRun ==
  \E rem \in TaggedStores \cup ReferrerStores, cfg \in DryRunConfigs :
    Constructed(rem, cfg, "reload")

SpecDryRun == InitDryRun /\ [][Next]_vars

----------------------------------------------------------------------------
(* The keep-n steps of the deletion strategy on their own *)

InitStrategy ==
  \E rem \in DatedStores, n \in 0..MaxKeepN : \E fs \in CandidateSets(rem) :
    /\ Loaded(rem, [DefaultConfig EXCEPT !.keepNtagged = n,
                                         !.keepNuntagged = n],
              fs, EmptyMap, "call")
    /\ snapshot = rem
    /\ plan = EmptyPlan
    /\ result = FALSE

\* keepNTagged(filterSet): result keeps the candidate set of the call
CallKeepNTagged ==
  /\ pc = "call"
  /\ deleteSet' = KeepNTagged(config, repo, filterSet)
  /\ filterSet' = AfterKeepNTagged(config, repo, filterSet)
  /\ result' = [op |-> "keepNTagged", filterSet |-> filterSet]
  /\ pc' = "ret"
  /\ UNCHANGED <<remote, snapshot, repo, config, inputs, targets, fault, globalStatistics,
                 perPackageStats, excludeTags, digestUsedBy,
                 deleted, statistics, plan, calls>>

\* keepNUntagged(filterSet)
CallKeepNUntagged ==
  /\ pc = "call"
  /\ deleteSet' = KeepNUntagged(config, repo, filterSet)
  /\ filterSet' = AfterKeepNUntagged(config, repo, filterSet)
  /\ result' = [op |-> "keepNUntagged", filterSet |-> filterSet]
  /\ pc' = "ret"
  /\ UNCHANGED <<remote, snapshot, repo, config, inputs, targets, fault, globalStatistics,
                 perPackageStats, excludeTags, digestUsedBy,
                 deleted, statistics, plan, calls>>

NextStrategy == CallKeepNTagged \/ CallKeepNUntagged

SpecStrategy == InitStrategy /\ [][NextStrategy]_vars

----------------------------------------------------------------------------
(* keepNTagged on its own with a tag selector configured *)

InitKeepTags ==
  \E rem \in DatedStores, n \in 0..MaxKeepN,
     dt \in {<<TagA, TagB>>, <<TagC>>, <<STAR>>} :
    \E fs \in CandidateSets(rem) :
      /\ Loaded(rem, [DefaultConfig EXCEPT !.keepNtagged = n,
                                           !.deleteTags = dt],
                fs, EmptyMap, "call")
      /\ snapshot = rem
      /\ plan = EmptyPlan
      /\ result = FALSE

NextKeepTags == CallKeepNTagged

SpecKeepTags == InitKeepTags /\ [][NextKeepTags]_vars

----------------------------------------------------------------------------
(* The untagged steps of the deletion strategy and the keep step of the
   orchestrator on any candidate set *)

InitUntagged ==
  \E rem \in DatedStores, n \in -1..MaxKeepN, du \in BOOLEAN,
     start \in {"call", "keep"} :
    \E fs \in CandidateSets(rem) :
      /\ ValidConfig([DefaultConfig EXCEPT !.keepNuntagged = n,
                                           !.deleteUntagged = du])
      /\ Loaded(rem, [DefaultConfig EXCEPT !.keepNuntagged = n,
                                           !.deleteUntagged = du],
                fs, EmptyMap, start)
      /\ snapshot = rem
      /\ plan = EmptyPlan
      /\ result = [op |-> "none", filterSet |-> fs]

\* deleteAllUntagged(filterSet)
CallDeleteAllUntagged ==
  /\ pc = "call"
  /\ deleteSet' = DeleteAllUntagged(repo, filterSet)
  /\ filterSet' = AfterDeleteAllUntagged(repo, filterSet)
  /\ result' = [op |-> "deleteAllUntagged", filterSet |-> filterSet]
  /\ pc' = "ret"
  /\ UNCHANGED <<remote, snapshot, repo, config, inputs, targets, fault, globalStatistics,
                 perPackageStats, excludeTags, digestUsedBy,
                 deleted, statistics, plan, calls>>

NextUntagged ==
  CallKeepNUntagged \/ CallDeleteAllUntagged \/ ApplyKeepPolicies

SpecUntagged == InitUntagged /\ [][NextUntagged]_vars

----------------------------------------------------------------------------
(* The ghost and partial image searches of the validator on their own *)

InitValidator ==
  \E rem \in GraphStores : \E fs \in CandidateSets(rem) :
    /\ Loaded(rem, DefaultConfig, fs, EmptyMap, "call")
    /\ snapshot = rem
    /\ plan = EmptyPlan
    /\ result = FALSE

\* findGhostImages(filterSet)
CallFindGhostImages ==
  /\ pc = "call"
  /\ result' = [ghost |-> FindGhostImages(remote, repo, filterSet),
                partial |-> <<>>]
  /\ pc' = "ghost"
  /\ UNCHANGED <<remote, snapshot, repo, config, inputs, targets, fault, globalStatistics,
                 perPackageStats, filterSet, deleteSet,
                 excludeTags, digestUsedBy, deleted, statistics, plan, calls>>

\* findPartialImages(filterSet) on the same candidate set
CallFindPartialImages ==
  /\ pc = "ghost"
  /\ result' = [result EXCEPT
                  !.partial = FindPartialImages(remote, repo, filterSet)]
  /\ pc' = "ret"
  /\ UNCHANGED <<remote, snapshot, repo, config, inputs, targets, fault, globalStatistics,
                 perPackageStats, filterSet, deleteSet,
                 excludeTags, digestUsedBy, deleted, statistics, plan, calls>>

NextValidator == CallFindGhostImages \/ CallFindPartialImages

SpecValidator == InitValidator /\ [][NextValidator]_vars

----------------------------------------------------------------------------
(* findOrphanedImages on its own *)

\* tags with and without the referrer prefix: the bare prefix, a prefix
\* followed by fewer characters than a digest has, parents that exist (P, D)
\* and one that does not (X), with and without trailing characters
OrphanTags ==
  {TagA, <<SHA_DASH>>, <<SHA_DASH, "1">>,
   RefTag("1", <<>>), RefTag("1", <<".sig">>),
   RefTag("5", <<>>), RefTag("5", <<".sig", ".x">>),
   RefTag("4", <<".att">>)}

\* every tag sits on R, on D or on no package
OrphanStores ==
  { Store(<<Package(P, 1, {}, 1), Package(C, 3, {}, 1),
            Package(R, 6, {t \in OrphanTags : at[t] = R}, 1),
            Package(D, 4, {t \in OrphanTags : at[t] = D}, 1)>>,
          (R :> LEAF) @@ LeafKids) :
      at \in [OrphanTags -> {R, D, X}] }

InitOrphans ==
  \E rem \in OrphanStores :
    /\ Loaded(rem, DefaultConfig, <<>>, EmptyMap, "call")
    /\ snapshot = rem
    /\ plan = EmptyPlan
    /\ result = <<>>

\* findOrphanedImages()
CallFindOrphanedImages ==
  /\ pc = "call"
  /\ result' = FindOrphanedImages(repo)
  /\ pc' = "ret"
  /\ UNCHANGED <<remote, snapshot, repo, config, inputs, targets, fault, globalStatistics,
                 perPackageStats, filterSet, deleteSet,
                 excludeTags, digestUsedBy, deleted, statistics, plan, calls>>

NextOrphans == CallFindOrphanedImages

SpecOrphans == InitOrphans /\ [][NextOrphans]_vars

----------------------------------------------------------------------------
(* The filters of ImageFilter on their own *)

FilterConfigs ==
  { [DefaultConfig EXCEPT !.excludeTags = et, !.olderThan = ot] :
      et \in {<<>>, <<TagA>>, <<P>>, <<TagC, Q>>, <<STAR>>},
      ot \in 0..MaxTime }

InitFilter ==
  \E rem \in DatedStores, cfg \in FilterConfigs :
    \E fs \in CandidateSets(rem) :
      /\ Loaded(rem, cfg, fs, EmptyMap, "call")
      /\ snapshot = rem
      /\ plan = EmptyPlan
      /\ result = FALSE

\* applyExclusionFilters(filterSet): result keeps the candidate set of the
\* call and the returned list
CallApplyExclusionFilters ==
  /\ pc = "call"
  /\ filterSet' = ApplyExclusionFilters(config, repo, filterSet)
  /\ result' = [op |-> "applyExclusionFilters", filterSet |-> filterSet,
                returned |-> ExcludedStrings(config, repo)]
  /\ pc' = "ret"
  /\ UNCHANGED <<remote, snapshot, repo, config, inputs, targets, fault, globalStatistics,
                 perPackageStats, deleteSet, excludeTags, digestUsedBy, deleted,
                 statistics, plan, calls>>

\* applyAgeFilter(filterSet)
CallApplyAgeFilter ==
  /\ pc = "call"
  /\ filterSet' = ApplyAgeFilter(config, repo, filterSet)
  /\ result' = [op |-> "applyAgeFilter", filterSet |-> filterSet,
                returned |-> <<>>]
  /\ pc' = "ret"
  /\ UNCHANGED <<remote, snapshot, repo, config, inputs, targets, fault, globalStatistics,
                 perPackageStats, deleteSet, excludeTags, digestUsedBy, deleted,
                 statistics, plan, calls>>

NextFilter == CallApplyExclusionFilters \/ CallApplyAgeFilter

SpecFilter == InitFilter /\ [][NextFilter]_vars

----------------------------------------------------------------------------
(* validate on its own *)

InitValidate ==
  \E rem \in GraphStores \cup ReferrerStores :
    LET st == Reloaded(rem, DefaultConfig)
    IN /\ Loaded(rem, DefaultConfig, st.filterSet, st.digestUsedBy, "call")
       /\ snapshot = rem
       /\ plan = EmptyPlan
       /\ result = [op |-> "none", hasErrors |-> FALSE]

\* validate()
CallValidate ==
  /\ pc = "call"
  /\ result' = [op |-> "validate", hasErrors |-> Validate(remote, repo)]
  /\ pc' = "ret"
  /\ UNCHANGED <<remote, snapshot, repo, config, inputs, targets, fault, globalStatistics,
                 perPackageStats, filterSet, deleteSet, excludeTags, digestUsedBy,
                 deleted, statistics, plan, calls>>

NextValidate == CallValidate

SpecValidate == InitValidate /\ [][NextValidate]_vars

----------------------------------------------------------------------------
(* The selection of invalid images and the keep step after a reload *)

\* P and Q are leaves or indexes over nothing, over the missing X or over
\* X and C; R is a signature of P, of the missing X, or untagged
SelectStores ==
  { Store(<<Package(P, 1, tp, 1), Package(Q, 2, {}, 1), Package(C, 3, {}, 1),
            Package(R, 6, tr, 1), Package(D, 4, {}, 1)>>,
          (P :> kp) @@ (Q :> kq) @@ (R :> LEAF) @@ LeafKids) :
      tp \in {{}, {TagA}},
      tr \in {{}, {RefTag("1", <<".sig">>)}, {RefTag("5", <<".sig">>)}},
      kp \in {LEAF, <<>>, <<X>>, <<X, C>>, <<C>>},
      kq \in {LEAF, <<>>, <<X>>} }

\* config.ts, lines 176-185: the three options are read independently
SelectConfigs ==
  { [DefaultConfig EXCEPT !.deleteGhostImages = gh, !.deletePartialImages = pa,
                          !.deleteOrphanedImages = orph,
                          !.deleteUntagged = du, !.keepNtagged = kt] :
      gh \in BOOLEAN, pa \in BOOLEAN, orph \in BOOLEAN, du \in BOOLEAN,
      kt \in {-1, 0} }

InitSelect ==
  \E rem \in SelectStores, cfg \in SelectConfigs :
    LET st == Reloaded(rem, cfg)
    IN /\ Loaded(rem, cfg, st.filterSet, st.digestUsedBy, "select")
       /\ snapshot = rem
       /\ plan = EmptyPlan
       /\ result = FALSE

NextSelect == SelectInvalidImages \/ ApplyKeepPolicies

SpecSelect == InitSelect /\ [][NextSelect]_vars

----------------------------------------------------------------------------
(* performUntagging on its own, with a packages API that may answer the
   load after a manifest write with the listing from before the write *)

InitUntag ==
  \E rem \in TaggedStores,
     dt \in {<<TagA>>, <<TagA, TagB>>, <<STAR>>} :
    LET cfg == [DefaultConfig EXCEPT !.deleteTags = dt]
        st == Reloaded(rem, cfg)
        p == ProcessTagDeletions(cfg, st.repo, st.filterSet, st.excludeTags)
    IN /\ Loaded(rem, cfg, p.filterSet, st.digestUsedBy, "untag")
       /\ snapshot = rem
       /\ result = FALSE
       /\ plan = [deleteSet |-> p.deleteSet,
                  untagOperations |-> p.untagOperations,
                  queue |-> UntagQueue(p.untagOperations)]

\* performUntagging, one iteration of the inner loop; the packages API
\* answers with the listing from before the manifest write
UntagStale ==
  /\ pc = "untag"
  /\ plan.queue # <<>>
  /\ LET u == UntagTag(CurrentSession, repo, config,
                       Head(plan.queue).digest, Head(plan.queue).tag, TRUE)
     IN /\ remote' = u.w.rem
        /\ repo' = u.r
        /\ calls' = u.w.calls
        /\ pc' = IF u.w.err THEN "failed" ELSE "untag"
  /\ plan' = [plan EXCEPT !.queue = Tail(@)]
  /\ UNCHANGED <<snapshot, config, inputs, targets, fault, globalStatistics,
                 perPackageStats, filterSet, deleteSet, excludeTags,
                 digestUsedBy, deleted, statistics, result>>

\* performUntagging, lines 24-26 and 88: false for an empty plan, true after
\* the loops
UntagReturn ==
  /\ pc = "untag"
  /\ plan.queue = <<>>
  /\ result' = (plan.untagOperations # <<>>)
  /\ pc' = "done"
  /\ UNCHANGED <<remote, snapshot, repo, config, inputs, targets, fault, globalStatistics,
                 perPackageStats, filterSet, deleteSet,
                 excludeTags, digestUsedBy, deleted, statistics, plan, calls>>

NextUntag == UntagStep \/ UntagStale \/ UntagReturn

SpecUntag == InitUntag /\ [][NextUntag]_vars

\* performUntagging called with any plan over the tags of one package: the
\* plan lists some of the tags of the package, in either order
UntagPlans(rem) ==
  {<<>>} \cup
  UNION { { <<[digest |-> rem.pkgs[i].name, tags |-> ts]>> :
              ts \in {t \in {<<TagA>>, <<TagB>>, <<TagA, TagB>>,
                             <<TagB, TagA>>, <<TagC, TagA>>} :
                       Range(t) \subseteq rem.pkgs[i].tags} } :
          i \in 1..Len(rem.pkgs) }

InitUntagAny ==
  \E rem \in TaggedStores :
    \E ops \in UntagPlans(rem) :
      LET st == Reloaded(rem, DefaultConfig)
      IN /\ Loaded(rem, DefaultConfig, st.filterSet, st.digestUsedBy, "untag")
         /\ snapshot = rem
         /\ result = FALSE
         /\ plan = [deleteSet |-> <<>>, untagOperations |-> ops,
                    queue |-> UntagQueue(ops)]

SpecUntagAny == InitUntagAny /\ [][NextUntag]_vars

\* performUntagging on plans that name tags no package carries: with a
\* listing from before the write such a tag resolves to no digest
LostTagLists == {<<TagA>>, <<TagC>>, <<TagA, TagC>>, <<TagC, TagA>>}

LostPlans ==
  { <<[digest |-> P, tags |-> ts]>> : ts \in LostTagLists }
  \cup { <<[digest |-> P, tags |-> ts], [digest |-> Q, tags |-> us]>> :
            ts \in LostTagLists, us \in LostTagLists }

InitUntagLost ==
  \E rem \in TaggedStores, ops \in LostPlans :
    LET st == Reloaded(rem, DefaultConfig)
    IN /\ Loaded(rem, DefaultConfig, st.filterSet, st.digestUsedBy, "untag")
       /\ snapshot = rem
       /\ result = FALSE
       /\ plan = [deleteSet |-> <<>>, untagOperations |-> ops,
                  queue |-> UntagQueue(ops)]

SpecUntagLost == InitUntagLost /\ [][NextUntag]_vars

----------------------------------------------------------------------------
(* A session of the image deleter: deleteImage and deleteImages called in
   any order on the packages of the snapshot, without reset *)

\* the largest delete set handed to deleteImages
MaxBatch == 2
\* the number of calls of a session
MaxCalls == 2

\* the used-by map that names every index of the store listing the child,
\* as the tests of the deleter set it
FullUsedBy(rem) ==
  LET ds == {rem.pkgs[i].name : i \in 1..Len(rem.pkgs)}
      parents(c) == {p \in ds : /\ IsIndex(Manifest(rem, p))
                                /\ c \in Range(Children(Manifest(rem, p)))}
  IN [c \in {d \in ds : parents(d) # {}} |-> parents(c)]

\* the untagged snapshots of the referrer stores and of the graph stores
\* listed parents first, D not a child of P
DeleterStores ==
  {rem \in GraphStores \cup ReferrerStores :
     /\ \A i \in 1..Len(rem.pkgs) : rem.pkgs[i].tags \cap {TagA, TagB} = {}
     /\ rem.pkgs[1].name = P
     /\ D \notin Range(Children(Manifest(rem, P)))}

\* snapshot also records the used-by map the session starts with
InitDeleter ==
  \E rem \in DeleterStores, full \in BOOLEAN :
    LET r == LoadPackages([pkgs |-> <<>>, t2d |-> EmptyMap], rem.pkgs, TRUE)
        u == IF full THEN FullUsedBy(rem) ELSE LoadDigestUsedByMap(rem, r)
    IN /\ Loaded(rem, DefaultConfig, <<>>, u, "session")
       /\ snapshot = [pkgs |-> rem.pkgs, manifests |-> rem.manifests,
                      nextId |-> rem.nextId, usedBy |-> u]
       /\ plan = EmptyPlan
       /\ result = [op |-> "none", digest |-> <<>>, deleted |-> 0,
                    multiDeleted |-> 0, count |-> 0]

\* deleteImage(ghPackage) for a package of the snapshot; deleteSet collects
\* the digests handed to the deleter, result the returned counters
CallDeleteImage ==
  /\ pc = "session"
  /\ result.count < MaxCalls
  /\ \E d \in Range(GetDigests(repo)) :
       LET w == DeleteImage(CurrentSession, repo, config,
                            GetPackageByDigest(repo, d))
       IN /\ remote' = w.rem
          /\ deleted' = w.deleted
          /\ digestUsedBy' = w.usedBy
          /\ calls' = w.calls
          /\ deleteSet' = SetAdd(deleteSet, d)
          /\ result' = [op |-> "deleteImage", digest |-> d,
                        deleted |-> w.n, multiDeleted |-> w.multi,
                        count |-> result.count + 1]
          /\ pc' = IF w.err THEN "failed" ELSE "session"
  /\ UNCHANGED <<snapshot, repo, config, inputs, targets, fault, globalStatistics,
                 perPackageStats, filterSet, excludeTags, statistics,
                 plan>>

\* deleteImages(deleteSet) for a delete set of at most MaxBatch digests
CallDeleteImages ==
  /\ pc = "session"
  /\ result.count < MaxCalls
  /\ \E ds \in {fs \in CandidateSets(snapshot) : Len(fs) \in 1..MaxBatch} :
       LET w == DeleteImages(CurrentSession, repo, config, ds)
       IN /\ remote' = w.rem
          /\ deleted' = w.deleted
          /\ digestUsedBy' = w.usedBy
          /\ calls' = w.calls
          /\ deleteSet' = SetAddAll(deleteSet, ds)
          /\ result' = [op |-> "deleteImages", digest |-> ds,
                        deleted |-> w.n, multiDeleted |-> w.multi,
                        count |-> result.count + 1]
          /\ pc' = IF w.err THEN "failed" ELSE "session"
  /\ UNCHANGED <<snapshot, repo, config, inputs, targets, fault, globalStatistics,
                 perPackageStats, filterSet, excludeTags, statistics,
                 plan>>

NextDeleter == CallDeleteImage \/ CallDeleteImages

SpecDeleter == InitDeleter /\ [][NextDeleter]_vars

\* malformed snapshots: P and R may each be tagged as a referrer of itself
\* and of the other, D as a referrer of P, of R or of itself, and P and R
\* may list each other as a child
CyclicStores ==
  { Store(<<Package(P, 1, tp, 1), Package(R, 6, tr, 1),
            Package(D, 4, {RefTag(of, <<".c">>)}, 1)>>,
          (P :> kp) @@ (R :> kr) @@ LeafKids) :
      tp \in SUBSET {RefTag("1", <<".a">>), RefTag("6", <<".a">>)},
      tr \in SUBSET {RefTag("1", <<".b">>), RefTag("6", <<".b">>)},
      of \in {"1", "4", "6"},
      kp \in {LEAF, <<R>>}, kr \in {LEAF, <<P>>} }

\* a deleter session on a malformed snapshot
InitCyclic ==
  \E rem \in CyclicStores :
    LET r == LoadPackages([pkgs |-> <<>>, t2d |-> EmptyMap], rem.pkgs, TRUE)
        u == LoadDigestUsedByMap(rem, r)
    IN /\ Loaded(rem, DefaultConfig, <<>>, u, "session")
       /\ snapshot = [pkgs |-> rem.pkgs, manifests |-> rem.manifests,
                      nextId |-> rem.nextId, usedBy |-> u]
       /\ plan = EmptyPlan
       /\ result = [op |-> "none", digest |-> <<>>, deleted |-> 0,
                    multiDeleted |-> 0, count |-> 0]

SpecCyclic == InitCyclic /\ [][NextDeleter]_vars

----------------------------------------------------------------------------
(* Properties of a pass *)

\* the digests for which a deletePackageVersion call was issued
DeleteCalls ==
  {calls[i].digest : i \in {j \in 1..Len(calls) :
                              calls[j].op = "deletePackageVersion"}}
\* the tags for which a manifest was written
WrittenTags ==
  {calls[i].tag : i \in {j \in 1..Len(calls) : calls[j].op = "putManifest"}}
\* run has executed the delete set
PassOver == pc \in {"finish", "done"}
\* the package was in the store when the pass started and is gone
Gone(digest) == RemoteHas(snapshot, digest) /\ ~RemoteHas(remote, digest)
\* the index manifests of the starting snapshot that list the digest c
ParentsOf(c) ==
  {p \in RemoteDigests(snapshot) :
     IsIndex(Manifest(snapshot, p)) /\ c \in Range(Manifest(snapshot, p).manifests)}

\* C1: over a whole pass no package listed as a child by an index manifest
\* of the snapshot is deleted unless every index manifest of the snapshot
\* that lists it is deleted in that pass too
C1_ChildKeptWhileParentKept ==
  PassOver =>
    \A c \in RemoteDigests(snapshot) :
      Gone(c) => \A p \in ParentsOf(c) : Gone(p)

\* the package carries a tag matching exclude-tags, or its digest matches
Excluded(p) ==
  \/ IsTagMatch(config.excludeTags, p.name)
  \/ \E t \in p.tags : IsTagMatch(config.excludeTags, t)

\* C3: with exclude-tags set, no package carrying a matching tag (or whose
\* digest matches) is in the delete set handed to deleteImages, and none of
\* its tags is detached, whatever the other options
C3_ExcludedNeverStaged ==
  config.excludeTags # <<>> =>
    /\ pc = "delete" =>
         \A d \in Range(deleteSet) :
           HasPackage(repo, d) => ~Excluded(GetPackageByDigest(repo, d))
    /\ \A i \in 1..Len(snapshot.pkgs) :
         Excluded(snapshot.pkgs[i]) => snapshot.pkgs[i].tags \cap WrittenTags = {}

\* performUntagging has visited every tag of the plan and returns
UntaggingReturns == pc = "untag" /\ plan.queue = <<>>

OnlyDeleteTags ==
  /\ config.deleteTags # <<>>
  /\ config.keepNtagged = -1 /\ config.keepNuntagged = -1
  /\ ~config.deleteUntagged /\ ~config.deleteGhostImages
  /\ ~config.deletePartialImages /\ ~config.deleteOrphanedImages

\* the tags of the package that the delete-tags selector matches
MatchedTags(p) == {t \in p.tags : IsTagMatch(config.deleteTags, t)}

\* the packages with several tags that exclusion and age filtering left in
\* the candidate set when the pass started
MultiTagged ==
  {p \in Range(snapshot.pkgs) :
     /\ Cardinality(p.tags) >= 2
     /\ p.name \in Range(Reloaded(snapshot, config).filterSet)}

DigestSelected(p) == IsTagMatch(config.deleteTags, p.name)

StagedDelete(c) == c.op = "deletePackageVersion" /\ c.tag = <<>>

\* C8: deleteImages is not started before performUntagging has returned
\* and the reload that follows it has completed; no staged digest is
\* deleted while untagging is in progress
C8_UntagThenReloadThenDelete ==
  /\ pc = "untag" => \A i \in 1..Len(calls) : ~StagedDelete(calls[i])
  /\ pc = "delete" => plan.queue = <<>>
  /\ \A j \in 1..Len(calls) :
       StagedDelete(calls[j]) =>
         \A i \in 1..(j - 1) :
           calls[i].op = "putManifest" =>
             \E k \in (i + 1)..(j - 1) :
               calls[k] = Call("loadPackages", <<>>, RESET)

\* a run that detached a tag and then deleted staged digests
C8_Witness ==
  /\ PassOver
  /\ WrittenTags # {}
  /\ \E j \in 1..Len(calls) : StagedDelete(calls[j])

\* the partition of the candidate set the returned keep-n step ranks
Partition ==
  {d \in Range(result.filterSet) :
     (GetPackageByDigest(repo, d).tags # {}) <=> (result.op = "keepNTagged")}

\* the N of the returned keep-n step
KeepN ==
  IF result.op = "keepNTagged" THEN config.keepNtagged
  ELSE config.keepNuntagged

\* C10: keepNTagged without tag selector and keepNUntagged return exactly
\* the packages of their partition of the candidate set that are not among
\* the N most recently updated, remove exactly those from the candidate
\* set and leave the other partition alone; with at most N packages in the
\* partition the result is empty and the candidate set unchanged
C10_KeepNewestN ==
  pc = "ret" =>
    LET del == Range(deleteSet) IN
      /\ del \subseteq Partition
      /\ Cardinality(del) =
           IF Cardinality(Partition) > KeepN
           THEN Cardinality(Partition) - KeepN ELSE 0
      /\ Len(deleteSet) = Cardinality(del)
      /\ \A k \in Partition \ del : \A d \in del :
           GetPackageByDigest(repo, k).updated_at
             >= GetPackageByDigest(repo, d).updated_at
      /\ filterSet = SelectSeq(result.filterSet, LAMBDA d : d \notin del)
      /\ Cardinality(Partition) <= KeepN =>
           deleteSet = <<>> /\ filterSet = result.filterSet

\* a keep-n step returned the older packages of a partition whose dates
\* differ and were not listed newest first
C10_Witness ==
  /\ pc = "ret"
  /\ KeepN >= 1
  /\ deleteSet # <<>>
  /\ Range(result.filterSet) \ Partition # {}
  /\ \E k \in Partition \ Range(deleteSet) : \E d \in Range(deleteSet) :
       /\ GetPackageByDigest(repo, k).updated_at
            > GetPackageByDigest(repo, d).updated_at
       /\ GetPackageByDigest(repo, d).id < GetPackageByDigest(repo, k).id

\* C9: findGhostImages and findPartialImages return disjoint sets: an
\* index with all children missing is returned only by findGhostImages,
\* one with some but not all children missing only by findPartialImages,
\* and the three cases exclude one another whatever the number of children
C9_GhostAndPartialDisjoint ==
  pc = "ret" =>
    /\ Range(result.ghost) \cap Range(result.partial) = {}
    /\ \A d \in Range(filterSet) :
         LET m == Manifest(remote, d)
             none == Missing(repo, m) = 0
             all == Missing(repo, m) = Len(m.manifests)
             some == ~none /\ ~all
         IN IsIndex(m) =>
              /\ Cardinality({i \in 1..3 : <<none, some, all>>[i]}) = 1
              /\ all => d \in Range(result.ghost) \ Range(result.partial)
              /\ some => d \in Range(result.partial) \ Range(result.ghost)

\* the digests performUntagging is asked to untag
UntaggedDigests ==
  {plan.untagOperations[i].digest : i \in 1..Len(plan.untagOperations)}

\* the digests for which performUntagging issued deletePackageVersion
UntagDeleteCalls ==
  {calls[i].digest : i \in {j \in 1..Len(calls) :
                              /\ calls[j].op = "deletePackageVersion"
                              /\ calls[j].tag # <<>>}}

\* C4: performUntagging never issues deletePackageVersion for the digest
\* being untagged, so the original package survives whatever listing the
\* packages API returns after the manifest write
C4_OriginalNeverDeleted ==
  /\ UntagDeleteCalls \cap UntaggedDigests = {}
  /\ \A d \in UntaggedDigests : RemoteHas(remote, d)

\* C2: in a deletion session started with used-by map U, a child c with
\* non-empty U[c] is deleted iff every parent in U[c] is deleted in the
\* session; while a parent remains, c is kept and the deleted parents are
\* removed from its used-by set.  Children handed to the deleter themselves
\* are left out
C2_ChildDeletedIffAllParentsDeleted ==
  pc = "session" =>
    \A c \in DOMAIN snapshot.usedBy :
      (snapshot.usedBy[c] # {} /\ ~Has(deleteSet, c)) =>
        /\ c \in deleted <=> snapshot.usedBy[c] \subseteq deleted
        /\ c \notin deleted =>
             /\ c \in DOMAIN digestUsedBy
             /\ digestUsedBy[c] = snapshot.usedBy[c] \ deleted

\* C5: within one deleter session deletePackageVersion is issued at most
\* once per digest, and deleteImage on an already deleted package returns
\* deleted = 0 and multiDeleted = 0 without any fetch or delete
C5_DeletedAtMostOnce ==
  /\ [](\A i, j \in 1..Len(calls) :
          (/\ i < j
           /\ calls[i].op = "deletePackageVersion"
           /\ calls[j].op = "deletePackageVersion")
          => calls[i].digest # calls[j].digest)
  /\ [][(/\ pc = "session"
         /\ result'.op = "deleteImage"
         /\ result'.digest \in deleted)
        => (/\ calls' = calls
            /\ remote' = remote
            /\ result'.deleted = 0
            /\ result'.multiDeleted = 0)]_vars

\* deleteImage was called on a package that an earlier call had deleted
C5_Witness ==
  /\ pc = "session"
  /\ result.op = "deleteImage"
  /\ result.deleted = 0
  /\ result.digest \in deleted
  /\ Cardinality(deleted) >= 2
  /\ calls # <<>>

\* the packages of the candidate set of the call that carry a tag matched
\* by the selector
MatchedPackages ==
  {d \in Range(result.filterSet) :
     MatchedTags(GetPackageByDigest(repo, d)) # {}}

\* C11: with delete-tags and keep-n-tagged = N, keepNTagged keeps the N
\* most recently updated packages that carry a matched tag, each package
\* counted once, and returns the remaining matched packages; a package
\* without matched tag is never returned
C11_KeepNOfMatchedPackages ==
  pc = "ret" =>
    LET del == Range(deleteSet) IN
      /\ del \subseteq MatchedPackages
      /\ Cardinality(del) =
           IF Cardinality(MatchedPackages) > config.keepNtagged
           THEN Cardinality(MatchedPackages) - config.keepNtagged ELSE 0
      /\ \A k \in MatchedPackages \ del : \A d \in del :
           GetPackageByDigest(repo, k).updated_at
             >= GetPackageByDigest(repo, d).updated_at

\* the options with delete-untagged = true in place of keep-n-untagged
DeleteUntaggedInstead ==
  [config EXCEPT !.keepNuntagged = -1, !.deleteUntagged = TRUE]

\* C12: keep-n-untagged = 0 has the effect of delete-untagged = true: on
\* every candidate set keepNUntagged with N = 0 returns the delete set and
\* leaves the candidate set of deleteAllUntagged, and the keep step of a
\* run stages the same digests under either option
C12_KeepZeroIsDeleteUntagged ==
  /\ []((pc = "ret" /\ config.keepNuntagged = 0) =>
          IF result.op = "keepNUntagged"
          THEN /\ Range(deleteSet)
                    = Range(DeleteAllUntagged(repo, result.filterSet))
               /\ filterSet = AfterDeleteAllUntagged(repo, result.filterSet)
          ELSE /\ Range(deleteSet)
                    = Range(KeepNUntagged(config, repo, result.filterSet))
               /\ filterSet
                    = AfterKeepNUntagged(config, repo, result.filterSet))
  /\ [][(pc = "keep" /\ config.keepNuntagged = 0) =>
          LET other == KeepPolicies(DeleteUntaggedInstead, repo, filterSet,
                                    deleteSet)
          IN /\ Range(deleteSet') = Range(other.deleteSet)
             /\ filterSet' = other.filterSet]_vars

\* keepNUntagged with N = 0 returned untagged packages of different dates
\* and left tagged ones in the candidate set
C12_Witness ==
  /\ pc = "ret"
  /\ config.keepNuntagged = 0
  /\ result.op = "keepNUntagged"
  /\ Len(deleteSet) >= 2
  /\ deleteSet # DeleteAllUntagged(repo, result.filterSet)
  /\ filterSet # <<>>

\* C17: deleteAllUntagged returns exactly the digests of the candidate set
\* whose package has no tag and removes exactly those from the candidate
\* set; every tagged digest stays and is never returned
C17_DeleteAllUntaggedExact ==
  (pc = "ret" /\ result.op = "deleteAllUntagged") =>
    LET untagged == {d \in Range(result.filterSet) :
                       GetPackageByDigest(repo, d).tags = {}}
    IN /\ Range(deleteSet) = untagged
       /\ Len(deleteSet) = Cardinality(untagged)
       /\ filterSet = SelectSeq(result.filterSet, LAMBDA d : d \notin untagged)

\* deleteAllUntagged returned some digests and left others
C17_Witness ==
  /\ pc = "ret"
  /\ result.op = "deleteAllUntagged"
  /\ deleteSet # <<>>
  /\ filterSet # <<>>

\* C13: with older-than set every digest staged in the delete set handed
\* to deleteImages has an updated_at older than the cutoff, now minus the
\* interval, whatever delete and keep options are set
C13_StagedOlderThanCutoff ==
  (pc = "delete" /\ config.olderThan # 0) =>
    \A d \in Range(deleteSet) :
      HasPackage(repo, d) =>
        GetPackageByDigest(repo, d).updated_at < config.now - config.olderThan

\* the packages reachable from the digests S through referrer tags: a tag
\* sha256-<hex of a digest of the set> on a package adds that package
RECURSIVE ReferrerClosure(_, _)
ReferrerClosure(r, S) ==
  LET T == S \cup {d \in Range(GetDigests(r)) :
                     \E x \in S : \E t \in ReferrerTags(r, x) :
                       GetDigestByTag(r, t) = d}
  IN IF T = S THEN S ELSE ReferrerClosure(r, T)

\* C14: deleteImage(p) deletes, besides p, every referrer artifact
\* reachable from p through referrer tags, to any nesting depth, and counts
\* each package it deletes exactly once in the returned deleted count
C14_ReferrersDeletedAndCounted ==
  [][(/\ pc = "session"
      /\ result'.op = "deleteImage"
      /\ result'.count = result.count + 1
      /\ result'.digest \notin deleted)
     => (/\ ReferrerClosure(repo, {result'.digest}) \subseteq deleted'
         /\ result'.deleted = Cardinality(deleted' \ deleted)
         /\ \A d \in deleted' \ deleted : ~RemoteHas(remote', d))]_vars

\* deleteImage deleted an image, its signature and the attestation of the
\* signature
C14_Witness ==
  /\ pc = "session"
  /\ result.op = "deleteImage"
  /\ result.count = 1
  /\ result.deleted >= 3
  /\ \E x \in ReferrerClosure(repo, {result.digest}) :
       /\ x # result.digest
       /\ \E y \in ReferrerClosure(repo, {x}) \ {x} :
            /\ y \notin {GetDigestByTag(repo, t) :
                           t \in ReferrerTags(repo, result.digest)}
            /\ y \in deleted

----------------------------------------------------------------------------
(* C15 *)

\* the call that failed, once it has been issued
FailedCall == calls[fault]

\* C15: once the call that the service fails has been issued, the pass is
\* aborted: the failing call is the last call of the log, the package of a
\* failed deletion is not in the deleted set and is still in the store, and
\* no step follows, neither of this pass nor of a later target package.
C15_FailureAbortsRun ==
  /\ []((fault # 0 /\ Len(calls) >= fault) =>
          /\ pc = "failed"
          /\ Len(calls) = fault
          /\ FailedCall.op = "deletePackageVersion" =>
                /\ FailedCall.digest \notin deleted
                /\ RemoteHas(remote, FailedCall.digest))
  /\ [][pc # "failed"]_vars

\* a deletion failed after another one had succeeded, with a target package
\* still to process
C15_Witness ==
  /\ pc = "failed"
  /\ fault # 0
  /\ Len(calls) = fault
  /\ FailedCall.op = "deletePackageVersion"
  /\ deleted # {}
  /\ targets # <<>>

----------------------------------------------------------------------------
(* C16 *)

----------------------------------------------------------------------------
(* C18, C19 *)

\* buildConfig has been called
ConfigBuilt == result.op = "buildConfig"

\* C18: whenever the inputs delete-untagged and keep-n-untagged are both
\* given, whatever their values, buildConfig throws and no configuration is
\* returned.
C18_UntaggedOptionsExclusive ==
  (ConfigBuilt /\ inputs.deleteUntagged # <<>> /\ inputs.keepNuntagged # <<>>)
    => (pc = "failed" /\ result.error # <<>>)

\* C19: in a configuration that buildConfig returns without the input
\* delete-untagged, deleteUntagged is true exactly when none of tags,
\* delete-tags, delete-ghost-images, delete-partial-images,
\* delete-orphaned-images, keep-n-untagged and keep-n-tagged is given.
C19_DeleteUntaggedDefault ==
  (ConfigBuilt /\ pc = "built" /\ inputs.deleteUntagged = <<>>) =>
    (config.deleteUntagged <=>
       ~ \/ inputs.tags # <<>>
         \/ inputs.deleteTags # <<>>
         \/ inputs.deleteGhostImages # <<>>
         \/ inputs.deletePartialImages # <<>>
         \/ inputs.deleteOrphanedImages # <<>>
         \/ inputs.keepNuntagged # <<>>
         \/ inputs.keepNtagged # <<>>)

\* a configuration built from inputs whose only cleanup option is
\* delete-ghost-images=false: the default does not apply
C19_Witness ==
  /\ ConfigBuilt
  /\ pc = "built"
  /\ inputs.deleteUntagged = <<>>
  /\ inputs.deleteGhostImages = <<"false">>
  /\ NoTagOption(inputs)
  /\ inputs.keepNuntagged = <<>>
  /\ inputs.keepNtagged = <<>>
  /\ ~config.deleteUntagged

----------------------------------------------------------------------------
(* C20 *)

\* the index manifests of the Package Index that list the digest c
IndexParents(c) ==
  {p \in Range(GetDigests(repo)) :
     IsIndex(Manifest(remote, p)) /\ c \in Range(Manifest(remote, p).manifests)}

\* C20: after reload, every index manifest of the Package Index is recorded
\* in the used-by map as a parent of each of its children that is in the
\* Package Index.
C20_UsedByComplete ==
  pc = "tags" =>
    \A c \in Range(GetDigests(repo)) :
      \A p \in IndexParents(c) :
        c \in DOMAIN digestUsedBy /\ p \in digestUsedBy[c]

----------------------------------------------------------------------------
(* C21 *)

\* C21: once the candidate set has been initialised, it holds no digest that
\* an index manifest of the Package Index lists as a child.
C21_NoChildInCandidateSet ==
  pc # "reload" =>
    \A c \in Range(filterSet) : IndexParents(c) = {}

----------------------------------------------------------------------------
(* C22 *)

\* the digests that the referrer tags of the digest d point to
ReferrersOf(d) ==
  {GetDigestByTag(repo, t) : t \in ReferrerTags(repo, d)} \ {<<>>}

\* C22: after initFilterSet the candidate set holds, for every digest of the
\* Package Index, neither a package tagged as its referrer nor a child of
\* such a package.
C22_NoReferrerInCandidateSet ==
  pc = "tags" =>
    \A d \in Range(GetDigests(repo)) :
      \A x \in ReferrersOf(d) :
        /\ ~Has(filterSet, x)
        /\ \A c \in Range(Children(Manifest(remote, x))) : ~Has(filterSet, c)

----------------------------------------------------------------------------
(* C23 *)

\* run goes on after performUntagging has returned true
AfterUntagging == pc = "untag" /\ plan.queue = <<>> /\ pc' = "select"

\* C23: when performUntagging has returned true, run reloads once and the
\* staged delete set is the delete set that processTagDeletions computes on
\* the reloaded snapshot and its candidate set: the index holds the packages
\* of the store, nothing staged before is left, and the delete set of the
\* plan computed before the reload is not merged.
C23_PlanRecomputedAfterReload ==
  [][AfterUntagging =>
       /\ calls' = Append(calls, Call("loadPackages", <<>>, RESET))
       /\ Range(GetDigests(repo')) = RemoteDigests(remote')
       /\ deleted' = {}
       /\ LET fresh == ProcessTagDeletions(
                         config, repo',
                         ApplyAgeFilter(config, repo',
                           ApplyExclusionFilters(config, repo',
                             InitFilterSet(remote', repo'))),
                         excludeTags')
          IN /\ deleteSet' = fresh.deleteSet
             /\ filterSet' = fresh.filterSet]_vars

\* after the reload a package that the plan had only untagged is staged:
\* the staged delete set differs from the delete set of the earlier plan
C23_Witness ==
  /\ pc = "select"
  /\ result = TRUE
  /\ plan.untagOperations # <<>>
  /\ Range(deleteSet) # Range(plan.deleteSet)
  /\ deleteSet # <<>>

----------------------------------------------------------------------------
(* C24 *)

\* C24: performUntagging returns true exactly when it issued a manifest
\* write during the call.
C24_TrueIffMutation ==
  pc = "done" =>
    (result <=> \E i \in 1..Len(calls) : calls[i].op = "putManifest")

----------------------------------------------------------------------------
(* C25 *)

\* the children of the index d whose only recorded parent is d and that are
\* not deleted yet
OnlyChildrenOf(d) ==
  {c \in Range(Children(Manifest(remote, d))) :
     /\ HasPackage(repo, c)
     /\ c \notin deleted
     /\ c \in DOMAIN digestUsedBy
     /\ digestUsedBy[c] = {d}}

\* C25: deleteImage(g) deletes every child of g whose only remaining parent
\* is g together with the children of that child that have no other parent
\* and the packages tagged as referrers of that child.
C25_ChildDeletedRecursively ==
  [][(/\ pc = "session"
      /\ pc' = "session"
      /\ result'.op = "deleteImage"
      /\ result'.count = result.count + 1
      /\ result'.digest \notin deleted)
     => \A c \in OnlyChildrenOf(result'.digest) :
          /\ c \in deleted'
          /\ OnlyChildrenOf(c) \subseteq deleted'
          /\ ReferrerClosure(repo, {c}) \subseteq deleted']_vars

----------------------------------------------------------------------------
(* C26 *)

\* the deletePackageVersion calls of the log
DeleteLog == SelectSeq(calls, LAMBDA c : c.op = "deletePackageVersion")

\* C26: on snapshots whose referrer tags or child lists are cyclic every
\* deleteImage and deleteImages call returns, without an error, and no
\* package is deleted twice: the deletions of a session are pairwise
\* distinct packages of the snapshot.
C26_CyclesDeletedOnce ==
  /\ pc = "session"
  /\ \A i, j \in 1..Len(DeleteLog) :
       i < j => DeleteLog[i].digest # DeleteLog[j].digest
  /\ \A i \in 1..Len(DeleteLog) : RemoteHas(snapshot, DeleteLog[i].digest)
  /\ deleted = {DeleteLog[i].digest : i \in 1..Len(DeleteLog)}

\* one deleteImage call went round a cycle of two packages tagged as
\* referrers of each other and deleted both
C26_Witness ==
  /\ result.op = "deleteImage"
  /\ result.count = 1
  /\ \E a, b \in deleted :
       /\ a # b
       /\ a \in ReferrersOf(b)
       /\ b \in ReferrersOf(a)
  /\ \E a \in deleted : a \in ReferrersOf(a)

----------------------------------------------------------------------------
(* Tag deletions with keep-n-tagged *)

\* C27: with delete-tags and keep-n-tagged both set, the tag deletion step
\* of the run plans an empty delete set, removes no digest from the
\* candidate set and stages nothing for deletion
C27_TagDeletionsDeferred ==
  [][(pc = "tags" /\ config.deleteTags # <<>> /\ config.keepNtagged # -1)
       => /\ plan'.deleteSet = <<>>
          /\ filterSet' = filterSet
          /\ deleteSet' = deleteSet]_vars

\* the step was taken with both options set over a candidate whose only
\* tag matches the selector and is not excluded
C27_Witness ==
  /\ pc = "select"
  /\ config.deleteTags # <<>> /\ config.keepNtagged # -1
  /\ plan.deleteSet = <<>>
  /\ \E t \in Range(ExpandTags(config, repo, filterSet)) :
       /\ ~Has(excludeTags, t)
       /\ GetDigestByTag(repo, t) # <<>>
       /\ TagCount(repo, GetDigestByTag(repo, t)) = 1
       /\ Has(filterSet, GetDigestByTag(repo, t))

----------------------------------------------------------------------------
(* The packages keep-n-tagged is to keep *)

\* the candidates of the starting snapshot with a tag the selector matches
SelectorPackages ==
  {p \in Range(snapshot.pkgs) :
     /\ MatchedTags(p) # {}
     /\ p.name \in Range(Reloaded(snapshot, config).filterSet)}

\* fewer than keep-n-tagged other such packages are as recent as p
AmongNewest(p) ==
  /\ p \in SelectorPackages
  /\ Cardinality({q \in SelectorPackages :
                    q # p /\ q.updated_at >= p.updated_at})
       < config.keepNtagged

\* C28: with delete-tags and keep-n-tagged = N both set, each of the N most
\* recently updated packages matching the selector stays in the store with
\* the tags it had at the start of the run
C28_NewestMatchingUntouched ==
  (config.deleteTags # <<>> /\ config.keepNtagged # -1)
    => \A p \in Range(snapshot.pkgs) :
         AmongNewest(p)
           => \E i \in 1..Len(remote.pkgs) :
                /\ remote.pkgs[i].name = p.name
                /\ remote.pkgs[i].tags = p.tags

----------------------------------------------------------------------------
(* The package written by an untagging step is not found *)

\* the calls the step adds to the session
NewCalls == SubSeq(calls', Len(calls) + 1, Len(calls'))

\* the step wrote a manifest under the tag at the head of the queue
WroteHeadTag ==
  /\ pc = "untag" /\ plan.queue # <<>>
  /\ \E i \in 1..Len(NewCalls) :
       NewCalls[i].op = "putManifest" /\ NewCalls[i].tag = Head(plan.queue).tag

\* the snapshot resolves the tag to a digest that has a package id
Located(r, tag) ==
  GetDigestByTag(r, tag) # <<>> /\ GetIdByDigest(r, GetDigestByTag(r, tag)) # 0

\* C29: when the package written under a tag is not found in the snapshot
\* after the write (no digest for the tag, or no id for the digest), the
\* step issues no deletePackageVersion, raises no error and goes on to the
\* rest of the untag plan
C29_MissingPackageSkipped ==
  [][(WroteHeadTag /\ ~Located(repo', Head(plan.queue).tag))
       => /\ \A i \in 1..Len(NewCalls) : NewCalls[i].op # "deletePackageVersion"
          /\ pc' = "untag"
          /\ plan'.queue = Tail(plan.queue)]_vars

\* a write that no deletion followed, and later in the same call a write
\* under another tag followed by its deletion
C29_Witness ==
  \E i, j \in 1..Len(calls) :
    /\ i < j
    /\ calls[i].op = "putManifest"
    /\ i + 1 <= Len(calls) /\ calls[i + 1].op = "loadPackages"
    /\ i + 2 <= Len(calls) /\ calls[i + 2].op # "deletePackageVersion"
    /\ calls[j].op = "deletePackageVersion"
    /\ calls[j].tag # calls[i].tag
    /\ calls[j - 2].op = "putManifest" /\ calls[j - 2].tag = calls[j].tag

----------------------------------------------------------------------------
(* Ghost images *)

\* the children of the manifest of d, as the registry serves it
ChildrenOf(d) == Range(Manifest(remote, d).manifests)

\* C30: findGhostImages(S) returns exactly the digests of S whose manifest
\* is an index manifest with every child digest absent from the package
\* snapshot; leaf manifests and index manifests with a present child are
\* not returned
C30_GhostsExact ==
  pc \in {"ghost", "ret"}
    => /\ Range(result.ghost) \subseteq Range(filterSet)
       /\ \A d \in Range(filterSet) :
            Has(result.ghost, d)
              <=> /\ IsIndex(Manifest(remote, d))
                  /\ \A c \in ChildrenOf(d) : ~HasPackage(repo, c)

\* a call that returns a ghost with a child, and passes over a leaf and an
\* index with a child present
C30_Witness ==
  /\ pc = "ghost"
  /\ \E d \in Range(result.ghost) : ChildrenOf(d) # {}
  /\ \E d \in Range(filterSet) :
       ~IsIndex(Manifest(remote, d)) /\ ~Has(result.ghost, d)
  /\ \E d \in Range(filterSet) :
       /\ IsIndex(Manifest(remote, d)) /\ ~Has(result.ghost, d)
       /\ \E c \in ChildrenOf(d) : HasPackage(repo, c)

----------------------------------------------------------------------------
(* Orphaned images *)

\* "sha256:" followed by the first HexLen characters after the prefix
EncodedParent(tag) ==
  <<SHA_COLON>> \o SubSeq(tag, 2, IF Len(tag) < 1 + HexLen THEN Len(tag)
                                  ELSE 1 + HexLen)

\* the tags of the snapshot that carry the referrer prefix and encode a
\* digest without a package
OrphanTagsOf(p) ==
  {t \in p.tags : t[1] = SHA_DASH /\ ~HasPackage(repo, EncodedParent(t))}

\* C31: findOrphanedImages returns exactly the digests that carry a tag
\* sha256-<hex>[suffix] whose parent digest, sha256: followed by the leading
\* hex characters of a digest's length, has no package; a package whose
\* tags lack the prefix or encode existing parents is not returned
C31_OrphansExact ==
  pc = "ret"
    => /\ \A d \in Range(result) : HasPackage(repo, d)
       /\ \A i \in 1..Len(repo.pkgs) :
            Has(result, repo.pkgs[i].name) <=> OrphanTagsOf(repo.pkgs[i]) # {}

\* R is returned for a tag with trailing characters after a missing parent;
\* D is passed over although it carries a referrer tag with trailing
\* characters (its parent P exists) and an ordinary tag
C31_Witness ==
  /\ pc = "ret"
  /\ Has(result, R) /\ ~Has(result, D)
  /\ RefTag("5", <<".sig", ".x">>) \in GetPackageByDigest(repo, R).tags
  /\ GetPackageByDigest(repo, D).tags = {TagA, RefTag("1", <<".sig">>)}

----------------------------------------------------------------------------
(* Ghost, partial and orphaned selection in run *)

\* the candidates that are indexes with every child absent
GhostCandidates ==
  {d \in Range(filterSet) :
     IsIndex(Manifest(remote, d))
       /\ \A c \in ChildrenOf(d) : ~HasPackage(repo, c)}

\* the candidates that are indexes with a child absent
PartialCandidates ==
  {d \in Range(filterSet) :
     IsIndex(Manifest(remote, d))
       /\ \E c \in ChildrenOf(d) : ~HasPackage(repo, c)}

\* the packages that carry a referrer tag of a missing parent
OrphanPackages ==
  {repo.pkgs[i].name : i \in {j \in 1..Len(repo.pkgs) :
                                OrphanTagsOf(repo.pkgs[j]) # {}}}

\* what the options select: partial before ghost, orphaned besides
SelectedInvalid ==
  (IF config.deletePartialImages THEN PartialCandidates
   ELSE IF config.deleteGhostImages THEN GhostCandidates ELSE {})
  \cup (IF config.deleteOrphanedImages THEN OrphanPackages ELSE {})

\* C32: in run the partial selection takes precedence over the ghost
\* selection, which is not applied when delete-partial-images is enabled;
\* the orphaned selection is applied whenever delete-orphaned-images is
\* enabled; every selected digest is added to the delete set and removed
\* from the candidate set, and the keep-n and delete-untagged steps follow
C32_SelectionOrder ==
  [][pc = "select"
       => /\ Range(deleteSet') = Range(deleteSet) \cup SelectedInvalid
          /\ Range(filterSet') = Range(filterSet) \ SelectedInvalid
          /\ pc' = "keep"]_vars

\* both options enabled with the orphaned one: the partial index and the
\* orphaned signature are staged, an index without children (a ghost that
\* is not partial) stays a candidate
C32_Witness ==
  /\ pc = "keep"
  /\ config.deletePartialImages /\ config.deleteGhostImages
  /\ config.deleteOrphanedImages
  /\ Has(deleteSet, P) /\ Has(deleteSet, R)
  /\ Has(filterSet, Q) /\ IsIndex(Manifest(remote, Q)) /\ ChildrenOf(Q) = {}

----------------------------------------------------------------------------
(* The counters deleteImages returns *)

\* the packages deleted by the step
DeletedByStep == deleted' \ deleted

\* a deleteImages call that returns
DeleteImagesReturns ==
  /\ pc = "session" /\ pc' = "session"
  /\ result'.op = "deleteImages" /\ result'.count = result.count + 1

\* C33: deleteImages returns numberImagesDeleted equal to the number of
\* package versions deleted during the call and numberMultiImagesDeleted
\* equal to the number of index manifests among them
C33_CountersMatchDeletions ==
  [][DeleteImagesReturns
       => /\ result'.deleted = Cardinality(DeletedByStep)
          /\ result'.multiDeleted =
               Cardinality({d \in DeletedByStep :
                              IsIndex(Manifest(snapshot, d))})]_vars

----------------------------------------------------------------------------
(* The order of manifest fetches and deletions in deleteImages *)

\* positions of the calls of the step, by operation
StepCalls(op) == {i \in 1..Len(NewCalls) : NewCalls[i].op = op}

\* every manifest of the delete set is fetched before the first deletion
PrimedBeforeFirstDeletion ==
  \A d \in Range(deleteSet) : \A j \in StepCalls("deletePackageVersion") :
    \E i \in StepCalls("getManifest") : i < j /\ NewCalls[i].digest = d

\* the manifest of a package is fetched before the package is deleted
FetchedBeforeDeleted ==
  \A j \in StepCalls("deletePackageVersion") :
    \E i \in StepCalls("getManifest") :
      i < j /\ NewCalls[i].digest = NewCalls[j].digest

\* no manifest is fetched for a digest that has been deleted
NoFetchAfterDeleted ==
  \A i \in StepCalls("deletePackageVersion") : \A j \in StepCalls("getManifest") :
    i < j => NewCalls[j].digest # NewCalls[i].digest

\* C34: in the deletion session of run the manifests of the whole delete set
\* are fetched before the first deletion, the manifest of each package is
\* fetched before its deletePackageVersion call, and no manifest is fetched
\* for a digest after it has been deleted
C34_FetchBeforeDelete ==
  [][pc = "delete"
       => /\ PrimedBeforeFirstDeletion
          /\ FetchedBeforeDeleted
          /\ NoFetchAfterDeleted]_vars

----------------------------------------------------------------------------
(* Several target packages *)

RECURSIVE SumStatistics(_)
SumStatistics(stats) ==
  IF stats = <<>> THEN NoStatistics
  ELSE StatisticsAdd(SumStatistics(Tail(stats)), Head(stats))

\* the step goes on to another package or ends the loop
LeavesPackage == targets' # targets \/ Len(perPackageStats') # Len(perPackageStats)

\* C35: the target packages are processed one after another in list order:
\* the loop turns to the next package only when run of the current one has
\* returned, the next package is the head of the remaining list and starts
\* with a new orchestrator, every other step leaves the list alone, and
\* the combined statistics are the sums of the statistics the runs returned
C35_PackagesInSequence ==
  [][/\ LeavesPackage
          => /\ pc = "done"
             /\ perPackageStats' = Append(perPackageStats, statistics)
             /\ \/ targets = <<>> /\ pc' = "exit"
                \/ /\ targets # <<>> /\ targets' = Tail(targets)
                   /\ remote' = Head(targets) /\ pc' = "reload"
                   /\ repo'.pkgs = <<>> /\ deleted' = {}
                   /\ calls' = calls
     /\ globalStatistics' = SumStatistics(perPackageStats')]_vars

\* three packages processed, the first and the third with deletions
C35_Witness ==
  /\ pc = "exit"
  /\ Len(perPackageStats) = 3
  /\ perPackageStats[1].numberImagesDeleted > 0
  /\ perPackageStats[3].numberImagesDeleted > 0
  /\ perPackageStats[1] # perPackageStats[3]
  /\ globalStatistics.numberImagesDeleted
       = perPackageStats[1].numberImagesDeleted
         + perPackageStats[2].numberImagesDeleted
         + perPackageStats[3].numberImagesDeleted

----------------------------------------------------------------------------
(* The age filter *)

\* the package was last updated before now minus older-than
OlderThanCutoff(d) ==
  GetPackageByDigest(repo, d).updated_at < config.now - config.olderThan

\* C36: after applyAgeFilter the candidate set holds exactly those of its
\* previous digests that were updated strictly before now minus older-than;
\* without older-than it is unchanged
C36_AgeFilterExact ==
  (pc = "ret" /\ result.op = "applyAgeFilter")
    => IF config.olderThan = 0 THEN filterSet = result.filterSet
       ELSE Range(filterSet)
              = {d \in Range(result.filterSet) : OlderThanCutoff(d)}

\* of three candidates the one updated before the cutoff stays; the one
\* updated at the cutoff and the one updated after it are removed
C36_Witness ==
  /\ pc = "ret" /\ result.op = "applyAgeFilter"
  /\ config.olderThan = 2
  /\ result.filterSet = <<P, Q, C>>
  /\ GetPackageByDigest(repo, P).updated_at = 1
  /\ GetPackageByDigest(repo, Q).updated_at = 2
  /\ GetPackageByDigest(repo, C).updated_at = 3
  /\ filterSet = <<P>>

----------------------------------------------------------------------------
(* The exclusion filter *)

\* the string matches a pattern of exclude-tags
ExcludeMatches(s) ==
  \E i \in 1..Len(config.excludeTags) :
    config.excludeTags[i] = s \/ config.excludeTags[i] = STAR

\* the packages of the snapshot with a matching tag or a matching digest
ExcludedPackages ==
  {repo.pkgs[i].name : i \in {j \in 1..Len(repo.pkgs) :
     \/ ExcludeMatches(repo.pkgs[j].name)
     \/ \E t \in repo.pkgs[j].tags : ExcludeMatches(t)}}

\* C37: applyExclusionFilters removes from the candidate set exactly the
\* digests with a tag or a digest string matching exclude-tags, returns
\* the matched tag and digest strings and leaves the other candidates in
\* place; without exclude-tags the set is unchanged and the list is empty
C37_ExclusionExact ==
  (pc = "ret" /\ result.op = "applyExclusionFilters")
    => /\ filterSet = SelectSeq(result.filterSet,
                                LAMBDA d : d \notin ExcludedPackages)
       /\ Range(result.returned)
            = {t \in GetTags(repo) : ExcludeMatches(t)}
              \cup {d \in Range(GetDigests(repo)) : ExcludeMatches(d)}
       /\ config.excludeTags = <<>>
            => filterSet = result.filterSet /\ result.returned = <<>>

\* exclude-tags c,<digest of Q>: C is removed for its tag, Q for its
\* digest, P stays; the tag and the digest are returned
C37_Witness ==
  /\ pc = "ret" /\ result.op = "applyExclusionFilters"
  /\ config.excludeTags = <<TagC, Q>>
  /\ result.filterSet = <<P, Q, C>>
  /\ TagC \in GetPackageByDigest(repo, C).tags
  /\ filterSet = <<P>>
  /\ Range(result.returned) = {TagC, Q}

----------------------------------------------------------------------------
(* What validate reports *)

\* an index manifest of the snapshot lists a child without a package
SomeChildMissing ==
  \E d \in Range(GetDigests(repo)) :
    /\ IsIndex(Manifest(remote, d))
    /\ \E c \in ChildrenOf(d) : ~HasPackage(repo, c)

\* a referrer tag of the snapshot encodes a parent without a package
SomeParentMissing ==
  \E i \in 1..Len(repo.pkgs) : OrphanTagsOf(repo.pkgs[i]) # {}

\* C38: validate returns hasErrors = true if and only if some index
\* manifest of the snapshot lists a child digest without a package or some
\* tag sha256-<hex> encodes a parent digest without a package
C38_ErrorsIffInconsistent ==
  (pc = "ret" /\ result.op = "validate")
    => (result.hasErrors <=> (SomeChildMissing \/ SomeParentMissing))

----------------------------------------------------------------------------
(* validate at the end of run *)

\* C39: the validation at the end of run issues no manifest write and no
\* package deletion, leaves the store, the snapshot loaded for it, the
\* used-by map and the statistics as they are, and run returns whatever
\* validate finds
C39_ValidateNonDestructive ==
  [][(pc = "finish" /\ config.validate)
       => /\ remote' = remote
          /\ \A i \in 1..Len(NewCalls) :
               NewCalls[i].op \notin {"putManifest", "deletePackageVersion"}
          /\ repo' = Reloaded(remote, config).repo
          /\ digestUsedBy' = Reloaded(remote, config).digestUsedBy
          /\ statistics' = statistics
          /\ pc' = "done"]_vars

\* run has returned after deletions although validate found a referrer
\* whose parent is missing
C39_Witness ==
  /\ pc = "done" /\ config.validate
  /\ result = TRUE
  /\ SomeParentMissing
  /\ statistics.numberImagesDeleted > 0

----------------------------------------------------------------------------
(* The delete set handed to deleteImages *)

\* C40: when run invokes deleteImages, the delete set and the candidate
\* set are disjoint and every digest of the delete set has a package in
\* the current snapshot
C40_DeleteSetDisjointAndPresent ==
  pc = "delete"
    => /\ Range(deleteSet) \cap Range(filterSet) = {}
       /\ \A d \in Range(deleteSet) : HasPackage(repo, d)

\* deleteImages is about to run on a delete set staged after untagging and
\* the reload that follows it, with candidates left over
C40_Witness ==
  /\ pc = "delete"
  /\ deleteSet # <<>> /\ filterSet # <<>>
  /\ \E i \in 1..Len(calls) : calls[i].op = "putManifest"

====
